---- MODULE Spec2Model ----
\* Credit ledger of the qr_code / users services: User.add_credits and
\* User.spend_credits (models/user.py), the admin tools view (admin.py) and the
\* POST /{user_id}/credits endpoint (routers/credits.py), run by concurrent
\* request workers against one database.
EXTENDS Integers, Sequences, FiniteSets, TLC

\* ---------------------------------------------------------------- bounds

\* Total number of requests the workers start in one behaviour.
MaxRequests == 3

\* Access tokens handed out in one behaviour.
MaxTokens == 2

\* Concurrent request workers (threads / processes of the web server).
Procs == {"p1", "p2"}

\* Rows of the user table, and an id / email that matches no row.
Users == {"u1", "u2"}
NoUser == "nobody"

\* Amounts a caller may pass (non-positive ones included).
Amounts == {-1, 0, 1, 2}

\* (tx_type, description) pairs a caller of add_credits / spend_credits may pass.
Labels ==
    {[type |-> "purchase", description |-> ""],
     [type |-> "adjustment", description |-> "note"]}

\* Arguments of the add_credits / spend_credits calls: every amount and label
\* on u1, and one unit call on u2 (a second account next to the first).
CallInputs ==
    [user : {"u1"}, amount : Amounts, label : Labels]
        \cup [user : {"u2"}, amount : {1}, label : {[type |-> "spend", description |-> ""]}]

\* Bodies of POST /{user_id}/credits (CreditTransactionRequest).
Payloads ==
    [transaction_type : {"purchase", "spend", "invalid_type"}, amount : Amounts,
     description : {""}]

\* Fields posted to the admin tools form (CreditAdjustmentForm).
Forms ==
    [user_email : {"u1", NoUser}, direction : {"add", "spend"}, amount : Amounts,
     description : {"", " note "}]

\* ---------------------------------------------------------------- model of the code

\* CreditTransactionType.choices
TypeChoices == {"purchase", "spend", "adjustment", "refund"}

\* User.credits = PositiveBigIntegerField(default=0)
DefaultCredits == 0

\* The CHECK (credits >= 0) a PositiveBigIntegerField column carries.
CreditsFieldCheck(v) == v >= 0

\* Faulty variant: the validation lets a zero amount through.
AddAmountNegativeOnly(amount) == amount < 0

\* `if amount <= 0: raise ValueError` of add_credits and of spend_credits
AddAmountInvalid(amount) == amount <= 0
SpendAmountInvalid(amount) == amount <= 0

\* Faulty variants: the UPDATE without its credits__gte condition, and with
\* the condition off by one.
SpendFilterNone(balance, amount) == TRUE
SpendFilterOffByOne(balance, amount) == balance + 1 >= amount

\* filter(pk=self.pk, credits__gte=amount): does the row match the WHERE clause
SpendFilter(balance, amount) == balance >= amount

\* Faulty variant: check-then-act on the value loaded on the instance.
InstanceCredits(inst, stored) == inst

\* The value an UPDATE with F('credits') and credits__gte works on: the stored
\* column, at the time the statement runs, not the value loaded on the instance.
StoredCredits(inst, stored) == stored

\* credits=F('credits') + amount / credits=F('credits') - amount
AddExpression(balance, amount) == balance + amount
SpendExpression(balance, amount) == balance - amount

\* Faulty variants: the statements run without the atomic block.
AddNotAtomic == FALSE
SpendNotAtomic == FALSE

\* `with transaction.atomic():` around the statements of each operation
AddAtomic == TRUE
SpendAtomic == TRUE
EndpointAtomic == TRUE

\* CreditAdjustmentForm.amount = IntegerField(min_value=1)
FormMinAmount == 1

\* str(cleaned_data.get('description') or '').strip(), on the strings of Forms
Strip(d) == CASE d = " note " -> "note" [] OTHER -> d

\* `if not description: description = 'Admin adjustment'`
ToolsDescription(d) == IF Strip(d) = "" THEN "Admin adjustment" ELSE Strip(d)

\* `user.credits += payload.amount`
EndpointNewCredits(inst, amount) == inst + amount

\* Faulty variants: the row of add_credits without the caller's description,
\* the row of spend_credits with the amount not negated.
AddRowNoDescription(u, amount, type, description) ==
    [user |-> u, amount |-> amount, type |-> type, description |-> ""]
SpendRowUnsigned(u, amount, type, description) ==
    [user |-> u, amount |-> amount, type |-> type, description |-> description]

\* the ledger row each operation creates
AddRow(u, amount, type, description) ==
    [user |-> u, amount |-> amount, type |-> type, description |-> description]
SpendRow(u, amount, type, description) ==
    [user |-> u, amount |-> -amount, type |-> type, description |-> description]

\* ---------------------------------------------------------------- roles, permissions and token claims

\* Ids of the Service rows, and the NULL of a nullable foreign key to Service
\* (Role.service, Permission.service), which is the id of no row.
Services == {1, 2}
Null == 0

\* Python's order of the permission codes in use, as sorted() compares str.
CodeOrder == <<"a", "audit", "b", "c", "export", "read", "write">>

StrLess(x, y) ==
    LET at(c) == CHOOSE i \in DOMAIN CodeOrder : CodeOrder[i] = c
    IN at(x) < at(y)

\* Faulty variant: the list of the set, without sorted().
RECURSIVE Unsorted(_)
Unsorted(S) ==
    IF S = {} THEN <<>>
    ELSE LET m == CHOOSE x \in S : \A y \in S : x = y \/ StrLess(y, x)
         IN <<m>> \o Unsorted(S \ {m})

\* sorted(list(perms)) of a set of codes
RECURSIVE Sorted(_)
Sorted(S) ==
    IF S = {} THEN <<>>
    ELSE LET m == CHOOSE x \in S : \A y \in S : x = y \/ StrLess(x, y)
         IN <<m>> \o Sorted(S \ {m})

Range(s) == {s[i] : i \in DOMAIN s}

\* The User rows: id, email, status, email_confirmed, password.
UserRows ==
    <<[id |-> "u1", email |-> "u1@example.com", status |-> "ACTIVE",
       email_confirmed |-> TRUE, password |-> "password123"],
      [id |-> "u2", email |-> "u2@example.com", status |-> "ACTIVE",
       email_confirmed |-> TRUE, password |-> "password123"]>>

\* The database with its User rows and no permission, role, assignment or QR
\* code row.
\* Every table is the sequence of its rows in the order they were created.
FreshDb ==
    [User |-> UserRows,
     Permission |-> <<>>,
     Role |-> <<>>,
     RolePermission |-> <<>>,
     UserGlobalPermission |-> <<>>,
     UserGlobalRole |-> <<>>,
     UserServiceAssignment |-> <<>>,
     UserServicePermission |-> <<>>,
     UserServiceRole |-> <<>>,
     QRCode |-> <<>>]

\* ---- uniqueness constraints of the models

\* Faulty variant: the model declares no unique_together.
NoUniqueTogether(keys) == TRUE

\* unique_together = (...): no two rows of the table agree on all the fields
\* (keys is the sequence of the rows' field tuples; the fields are NOT NULL).
UniqueTogether(keys) ==
    \A i, j \in DOMAIN keys : i # j => keys[i] # keys[j]

\* UniqueConstraint(fields=['service', 'name']) of Role: rows collide when they
\* agree on service and name; a NULL service equals no other service, so two
\* rows with service NULL never collide.
UniqueRoleNamePerService(rows) ==
    \A i, j \in DOMAIN rows :
        i # j => ~(/\ rows[i].service # Null
                   /\ rows[i].service = rows[j].service
                   /\ rows[i].name = rows[j].name)

\* The two conditional UniqueConstraints of Permission: (type, code) among
\* the GLOBAL rows, (type, service, code) among the SERVICE rows, NULL as above.
UniquePermissionCode(rows) ==
    \A i, j \in DOMAIN rows :
        i # j =>
            /\ ~(/\ rows[i].type = "GLOBAL" /\ rows[j].type = "GLOBAL"
                 /\ rows[i].code = rows[j].code)
            /\ ~(/\ rows[i].type = "SERVICE" /\ rows[j].type = "SERVICE"
                 /\ rows[i].service # Null
                 /\ rows[i].service = rows[j].service
                 /\ rows[i].code = rows[j].code)

UniqueRolePermission(rows) ==
    UniqueTogether([i \in DOMAIN rows |-> <<rows[i].role, rows[i].permission>>])
UniqueUserGlobalPermission(rows) ==
    UniqueTogether([i \in DOMAIN rows |-> <<rows[i].user, rows[i].permission>>])
UniqueUserGlobalRole(rows) ==
    UniqueTogether([i \in DOMAIN rows |-> <<rows[i].user, rows[i].role>>])
UniqueUserServiceAssignment(rows) ==
    UniqueTogether([i \in DOMAIN rows |-> <<rows[i].user, rows[i].service>>])
UniqueUserServicePermission(rows) ==
    UniqueTogether([i \in DOMAIN rows |->
                        <<rows[i].user, rows[i].service, rows[i].permission>>])
UniqueUserServiceRole(rows) ==
    UniqueTogether([i \in DOMAIN rows |->
                        <<rows[i].user, rows[i].service, rows[i].role>>])

\* Every constraint the database enforces on the tables of d.
Constraints(d) ==
    /\ UniqueTogether([i \in DOMAIN d.User |-> d.User[i].email])
    /\ UniquePermissionCode(d.Permission)
    /\ UniqueRoleNamePerService(d.Role)
    /\ UniqueRolePermission(d.RolePermission)
    /\ UniqueUserGlobalPermission(d.UserGlobalPermission)
    /\ UniqueUserGlobalRole(d.UserGlobalRole)
    /\ UniqueUserServiceAssignment(d.UserServiceAssignment)
    /\ UniqueUserServicePermission(d.UserServicePermission)
    /\ UniqueUserServiceRole(d.UserServiceRole)

\* ---- CustomAccessToken.for_user

\* The orders in which iterating a queryset can yield its rows: the querysets
\* of for_user carry no order_by() and the models no Meta.ordering, so the
\* database returns the matching rows in an order of its choosing.
QuerySetOrders(rows) ==
    {[i \in DOMAIN rows |-> rows[f[i]]] : f \in Permutations(DOMAIN rows)}

\* select_related('permission') / select_related('role'): the row behind a key
PermissionRow(d, id) == CHOOSE r \in Range(d.Permission) : r.id = id
RoleRow(d, id) == CHOOSE r \in Range(d.Role) : r.id = id
UserRow(d, id) == CHOOSE r \in Range(d.User) : r.id = id

\* for rp in RolePermission.objects.filter(role=...): perms.add(rp.permission.code)
RolePermissionCodes(d, role) ==
    {PermissionRow(d, rp.permission).code :
        rp \in {x \in Range(d.RolePermission) : x.role = role}}

\* for ugp in UserGlobalPermission.objects.filter(user=user):
\*     global_perms.add(ugp.permission.code)
DirectGlobalCodes(d, u) ==
    {PermissionRow(d, ugp.permission).code :
        ugp \in {x \in Range(d.UserGlobalPermission) : x.user = u}}

\* UserGlobalRole.objects.filter(user=user)
UserGlobalRoleRows(d, u) ==
    SelectSeq(d.UserGlobalRole, LAMBDA x : x.user = u)

\* The loop over the role assignments, in the order rows they are yielded in:
\* roles.append(row.role.name), and the codes of the roles' permissions.
RoleNames(d, rows) == [i \in DOMAIN rows |-> RoleRow(d, rows[i].role).name]
RoleCodes(d, rows) == UNION {RolePermissionCodes(d, rows[i].role) : i \in DOMAIN rows}

\* Faulty variant: the assignments of every user.
AssignmentRowsAnyUser(d, u) == d.UserServiceAssignment

\* UserServiceAssignment.objects.filter(user=user)
AssignmentRows(d, u) ==
    SelectSeq(d.UserServiceAssignment, LAMBDA x : x.user = u)

\* for usp in UserServicePermission.objects.filter(user=user, service=...):
\*     service_perms.add(usp.permission.code)
DirectServiceCodes(d, u, s) ==
    {PermissionRow(d, usp.permission).code :
        usp \in {x \in Range(d.UserServicePermission) : x.user = u /\ x.service = s}}

\* Faulty variant: the user's roles of every service.
UserServiceRoleRowsAnyService(d, u, s) ==
    SelectSeq(d.UserServiceRole, LAMBDA x : x.user = u)

\* UserServiceRole.objects.filter(user=user, service=assignment.service)
UserServiceRoleRows(d, u, s) ==
    SelectSeq(d.UserServiceRole, LAMBDA x : x.user = u /\ x.service = s)

\* Faulty variant: the direct permissions only.
ServicePermissionsDirectOnly(d, u, s, rows) == Sorted(DirectServiceCodes(d, u, s))

\* 'permissions': sorted(list(service_perms))
ServicePermissions(d, u, s, rows) ==
    Sorted(DirectServiceCodes(d, u, s) \cup RoleCodes(d, rows))

\* services_data[service_id] for one assignment, its role rows yielded as rows
ServiceEntry(d, u, s, rows) ==
    [permissions |-> ServicePermissions(d, u, s, rows), roles |-> RoleNames(d, rows)]

\* The entries the loop body can build for service s.
ServiceEntries(d, u, s) ==
    {ServiceEntry(d, u, s, rows) : rows \in QuerySetOrders(UserServiceRoleRows(d, u, s))}

\* service_id = str(assignment.service.id), for each assignment of the user
ServiceKeys(d, u) == {ToString(a.service) : a \in Range(AssignmentRows(d, u))}
KeyService(k) == CHOOSE s \in Services : ToString(s) = k

\* token['global_permissions'] = sorted(list(global_perms))
GlobalPermissions(d, u, rows) == Sorted(DirectGlobalCodes(d, u) \cup RoleCodes(d, rows))

\* The tokens for_user(user) can return: sub and email of the user, and the
\* three claims built from the rows the queries yield.
ForUser(d, u) ==
    LET keys == ServiceKeys(d, u)
        entries == UNION {ServiceEntries(d, u, KeyService(k)) : k \in keys}
    IN
    {[sub |-> u,
      email |-> UserRow(d, u).email,
      global_permissions |-> GlobalPermissions(d, u, rows),
      global_roles |-> RoleNames(d, rows),
      services |-> sv] :
        rows \in QuerySetOrders(UserGlobalRoleRows(d, u)),
        sv \in {f \in [keys -> entries] :
                   \A k \in keys : f[k] \in ServiceEntries(d, u, KeyService(k))}}

\* A worker that runs no admin API request.
ApiIdle ==
    [op |-> "none", pc |-> "idle", user |-> NoUser, service |-> Null,
     roles |-> <<>>, permissions |-> <<>>, outcome |-> "none",
     inst |-> 0, body |-> "", code |-> ""]

VARIABLES
    credits,    \* committed User.credits, per user row
    ledger,     \* committed CreditTransaction rows, in insertion order
    req,        \* per worker: the request it is running
    started,    \* requests started so far
    db,         \* the tables of users, roles, permissions and assignments
    tokens,     \* the access tokens handed out, in the order of issue
    api,        \* per worker: the admin API request it is running
    mail        \* the emails sent, in the order of sending

vars == <<credits, ledger, req, started, db, tokens, api, mail>>

\* The variables of the credit ledger, and those of roles and tokens.
ledgerVars == <<credits, ledger, req, started>>
rbacVars == <<db, tokens, api, mail>>

\* A worker that runs no request.
Idle ==
    [op |-> "none", pc |-> "idle", user |-> NoUser, amount |-> 0, type |-> "",
     description |-> "", inst |-> 0, txBal |-> <<>>, txRows |-> <<>>,
     outcome |-> "none", wrote |-> {}, dbOps |-> 0, sum |-> 0]

RECURSIVE SumAmounts(_)
SumAmounts(rows) ==
    IF rows = <<>> THEN 0 ELSE Head(rows).amount + SumAmounts(Tail(rows))

RECURSIVE RowsOf(_, _)
RowsOf(u, rows) ==
    IF rows = <<>> THEN <<>>
    ELSE IF Head(rows).user = u THEN <<Head(rows)>> \o RowsOf(u, Tail(rows))
    ELSE RowsOf(u, Tail(rows))

\* sum of the amounts of the user's committed CreditTransaction rows
LedgerSum(u) == SumAmounts(RowsOf(u, ledger))

\* Another worker's open transaction holds the row lock of user u: it has
\* updated the row and not yet committed or rolled back.
LockedByOther(p, u) ==
    \E q \in Procs \ {p} : req[q].user = u /\ req[q].txBal # <<>>

\* No role, permission or assignment exists, no token is out, no admin API
\* request runs.
RbacIdle ==
    /\ db = FreshDb
    /\ tokens = <<>>
    /\ mail = <<>>
    /\ api = [p \in Procs |-> ApiIdle]

Init ==
    /\ credits = [u \in Users |-> DefaultCredits]
    /\ ledger = <<>>
    /\ req = [p \in Procs |-> Idle]
    /\ started = 0
    /\ RbacIdle

\* The call ends, with its return or with an exception. An exception that
\* leaves the atomic block rolls the open transaction back: its pending update
\* and insert are dropped and the row lock is released.
Finish(r, outcome) ==
    [Idle EXCEPT !.op = r.op, !.user = r.user, !.amount = r.amount, !.inst = r.inst,
                 !.wrote = r.wrote, !.dbOps = r.dbOps, !.pc = "done",
                 !.outcome = outcome]

\* An UPDATE of the user's credits column by worker p's request r. Inside an
\* atomic block the new value stays pending (and the row stays locked) until
\* commit; outside one the statement commits by itself.
UpdateCredits(p, r, new, atomic, nextpc) ==
    /\ req' = [req EXCEPT ![p] =
                 [r EXCEPT !.txBal = IF atomic THEN <<new>> ELSE <<>>,
                           !.wrote = IF atomic THEN @ ELSE @ \cup {"balance"},
                           !.pc = nextpc,
                           !.dbOps = @ + 1]]
    /\ credits' = IF atomic THEN credits ELSE [credits EXCEPT ![r.user] = new]

\* CreditTransaction.objects.create(...) by worker p's request r.
InsertRow(p, r, row, atomic, nextpc) ==
    /\ req' = [req EXCEPT ![p] =
                 [r EXCEPT !.txRows = IF atomic THEN Append(@, row) ELSE @,
                           !.wrote = IF atomic THEN @ ELSE @ \cup {"row"},
                           !.pc = nextpc,
                           !.dbOps = @ + 1]]
    /\ ledger' = IF atomic THEN ledger ELSE Append(ledger, row)

\* ---- User.add_credits

\* The call, up to the atomic block: `if amount <= 0: raise ValueError`.
AddCredits(p, u, amount, type, description) ==
    /\ req[p].pc = "idle"
    /\ started < MaxRequests
    /\ started' = started + 1
    /\ LET r == [Idle EXCEPT !.op = "add", !.user = u, !.amount = amount,
                             !.type = type, !.description = description,
                             !.inst = credits[u]]
       IN req' = [req EXCEPT ![p] =
                    IF AddAmountInvalid(amount) THEN Finish(r, "ValueError")
                    ELSE [r EXCEPT !.pc = "update"]]
    /\ UNCHANGED <<credits, ledger>>
    /\ UNCHANGED rbacVars

\* model.objects.filter(pk=self.pk).update(credits=F('credits') + amount)
AddUpdate(p) ==
    LET r == req[p] IN
    /\ r.op = "add"
    /\ r.pc = "update"
    /\ ~LockedByOther(p, r.user)
    /\ UpdateCredits(p, r, AddExpression(StoredCredits(r.inst, credits[r.user]), r.amount),
                     AddAtomic, "insert")
    /\ UNCHANGED <<ledger, started>>
    /\ UNCHANGED rbacVars

\* CreditTransaction.objects.create(user=self, amount=amount, ...)
AddInsert(p) ==
    LET r == req[p] IN
    /\ r.op = "add"
    /\ r.pc = "insert"
    /\ InsertRow(p, r, AddRow(r.user, r.amount, r.type, r.description), AddAtomic, "commit")
    /\ UNCHANGED <<credits, started>>
    /\ UNCHANGED rbacVars

\* ---- User.spend_credits

\* The call, up to the atomic block: `if amount <= 0: raise ValueError`.
SpendCredits(p, u, amount, type, description) ==
    /\ req[p].pc = "idle"
    /\ started < MaxRequests
    /\ started' = started + 1
    /\ LET r == [Idle EXCEPT !.op = "spend", !.user = u, !.amount = amount,
                             !.type = type, !.description = description,
                             !.inst = credits[u]]
       IN req' = [req EXCEPT ![p] =
                    IF SpendAmountInvalid(amount) THEN Finish(r, "ValueError")
                    ELSE [r EXCEPT !.pc = "update"]]
    /\ UNCHANGED <<credits, ledger>>
    /\ UNCHANGED rbacVars

\* updated = filter(pk=self.pk, credits__gte=amount).update(credits=F('credits') - amount)
\* if updated != 1: raise InsufficientCreditsError
\* A row that does not match the WHERE clause is skipped without waiting for
\* its lock; a matching row is updated once no other transaction holds it.
SpendUpdate(p) ==
    LET r == req[p]
        balance == StoredCredits(r.inst, credits[r.user])
    IN
    /\ r.op = "spend"
    /\ r.pc = "update"
    /\ IF SpendFilter(balance, r.amount)
       THEN /\ ~LockedByOther(p, r.user)
            /\ UpdateCredits(p, r, SpendExpression(balance, r.amount),
                             SpendAtomic, "insert")
       ELSE /\ req' = [req EXCEPT ![p] =
                         Finish([r EXCEPT !.dbOps = @ + 1], "InsufficientCredits")]
            /\ credits' = credits
    /\ UNCHANGED <<ledger, started>>
    /\ UNCHANGED rbacVars

\* CreditTransaction.objects.create(user=self, amount=-amount, ...)
SpendInsert(p) ==
    LET r == req[p] IN
    /\ r.op = "spend"
    /\ r.pc = "insert"
    /\ InsertRow(p, r, SpendRow(r.user, r.amount, r.type, r.description), SpendAtomic, "commit")
    /\ UNCHANGED <<credits, started>>
    /\ UNCHANGED rbacVars

\* ---- shared steps

\* Faulty variant: the row is written with update_or_create(user=self), which
\* overwrites the user's latest row when there is one.
CommitUpsert(p) ==
    LET r == req[p]
        own == {i \in DOMAIN ledger : ledger[i].user = r.user}
        last == CHOOSE i \in own : \A j \in own : j <= i
    IN
    /\ r.pc = "commit"
    /\ credits' = IF r.txBal = <<>> THEN credits
                  ELSE [credits EXCEPT ![r.user] = r.txBal[1]]
    /\ ledger' = IF r.txRows # <<>> /\ own # {}
                 THEN [ledger EXCEPT ![last] = r.txRows[1]]
                 ELSE ledger \o r.txRows
    /\ req' = [req EXCEPT ![p] =
                 [r EXCEPT !.txBal = <<>>, !.txRows = <<>>,
                           !.wrote = @ \cup (IF r.txBal = <<>> THEN {} ELSE {"balance"})
                                       \cup (IF r.txRows = <<>> THEN {} ELSE {"row"}),
                           !.pc = IF r.op = "endpoint" THEN "respond" ELSE "refresh"]]
    /\ UNCHANGED started
    /\ UNCHANGED rbacVars

\* The atomic block is left without an exception: the transaction commits,
\* its pending update and insert become visible together, the lock is released.
Commit(p) ==
    LET r == req[p] IN
    /\ r.pc = "commit"
    /\ credits' = IF r.txBal = <<>> THEN credits
                  ELSE [credits EXCEPT ![r.user] = r.txBal[1]]
    /\ ledger' = ledger \o r.txRows
    /\ req' = [req EXCEPT ![p] =
                 [r EXCEPT !.txBal = <<>>, !.txRows = <<>>,
                           !.wrote = @ \cup (IF r.txBal = <<>> THEN {} ELSE {"balance"})
                                       \cup (IF r.txRows = <<>> THEN {} ELSE {"row"}),
                           !.pc = IF r.op = "endpoint" THEN "respond" ELSE "refresh"]]
    /\ UNCHANGED started
    /\ UNCHANGED rbacVars

\* self.refresh_from_db(fields=['credits'])
Refresh(p) ==
    LET r == req[p] IN
    /\ r.pc = "refresh"
    /\ req' = [req EXCEPT ![p] =
                 Finish([r EXCEPT !.inst = credits[r.user], !.dbOps = @ + 1], "ok")]
    /\ UNCHANGED <<credits, ledger, started>>
    /\ UNCHANGED rbacVars

\* A statement inside the atomic block, or the commit, fails or the request
\* is cancelled there: the exception propagates and the block rolls back.
StorageFailure(p) ==
    LET r == req[p] IN
    /\ r.pc \in {"update", "insert", "e_insert", "e_save", "commit"}
    /\ req' = [req EXCEPT ![p] = Finish(r, "StorageError")]
    /\ UNCHANGED <<credits, ledger, started>>
    /\ UNCHANGED rbacVars

\* A concurrent reader takes one snapshot of a user's balance and ledger.
Read(p, u) ==
    /\ req[p].pc = "idle"
    /\ started < MaxRequests
    /\ started' = started + 1
    /\ req' = [req EXCEPT ![p] =
                 [Idle EXCEPT !.op = "read", !.user = u, !.inst = credits[u],
                              !.sum = LedgerSum(u), !.dbOps = 1,
                              !.pc = "done", !.outcome = "ok"]]
    /\ UNCHANGED <<credits, ledger>>
    /\ UNCHANGED rbacVars

\* The worker has answered and is free for the next request.
Return(p) ==
    /\ req[p].pc = "done"
    /\ req' = [req EXCEPT ![p] = Idle]
    /\ UNCHANGED <<credits, ledger, started>>
    /\ UNCHANGED rbacVars

\* The steps of a request that has entered its atomic block, and its answer.
Step(p) ==
    \/ AddUpdate(p)
    \/ AddInsert(p)
    \/ SpendUpdate(p)
    \/ SpendInsert(p)
    \/ Commit(p)
    \/ Refresh(p)
    \/ StorageFailure(p)
    \/ Return(p)

\* Workers calling the two ledger operations, and readers.
NextLedger ==
    \E p \in Procs :
        \/ \E c \in CallInputs :
              \/ AddCredits(p, c.user, c.amount, c.label.type, c.label.description)
              \/ SpendCredits(p, c.user, c.amount, c.label.type, c.label.description)
        \/ \E u \in Users : Read(p, u)
        \/ Step(p)

Spec == Init /\ [][NextLedger]_vars

\* ---- admin tools view (tools_view, the adjust_credits form)

\* The whole POST up to the atomic block of the primitive it calls: form
\* validation, the lookup of the user by email, the default description, then
\* target.add_credits / target.spend_credits with tx_type='adjustment'.
ToolsView(p, f) ==
    /\ req[p].pc = "idle"
    /\ started < MaxRequests
    /\ started' = started + 1
    /\ LET form == [Idle EXCEPT !.op = "tools"]
           found == [form EXCEPT !.user = f.user_email, !.dbOps = 1]
           r == IF f.user_email \in Users
                THEN [found EXCEPT !.op = f.direction,
                                   !.amount = f.amount, !.type = "adjustment",
                                   !.description = ToolsDescription(f.description),
                                   !.inst = credits[f.user_email]]
                ELSE found
       IN req' = [req EXCEPT ![p] =
                    IF f.amount < FormMinAmount THEN Finish(form, "form_error")
                    ELSE IF f.user_email \notin Users THEN Finish(found, "user_not_found")
                    ELSE IF f.direction = "add" /\ AddAmountInvalid(f.amount)
                         THEN Finish(r, "ValueError")
                    ELSE IF f.direction = "spend" /\ SpendAmountInvalid(f.amount)
                         THEN Finish(r, "ValueError")
                    ELSE [r EXCEPT !.pc = "update"]]
    /\ UNCHANGED <<credits, ledger>>
    /\ UNCHANGED rbacVars

\* ---- POST /{user_id}/credits (create_credit_transaction)

\* User.objects.get(id=user_id), 404 if there is none; then the check of
\* payload.transaction_type against CreditTransactionType.choices, 400.
CreateCreditTransaction(p, uid, payload) ==
    /\ req[p].pc = "idle"
    /\ started < MaxRequests
    /\ started' = started + 1
    /\ LET looked == [Idle EXCEPT !.op = "endpoint", !.user = uid, !.dbOps = 1]
           r == IF uid \in Users
                THEN [looked EXCEPT !.amount = payload.amount,
                                    !.type = payload.transaction_type,
                                    !.description = payload.description,
                                    !.inst = credits[uid]]
                ELSE looked
       IN req' = [req EXCEPT ![p] =
                    IF uid \notin Users THEN Finish(looked, "404")
                    ELSE IF payload.transaction_type \notin TypeChoices THEN Finish(r, "400")
                    ELSE [r EXCEPT !.pc = "e_insert"]]
    /\ UNCHANGED <<credits, ledger>>
    /\ UNCHANGED rbacVars

\* CreditTransaction.objects.create(user=user, amount=payload.amount, ...)
EndpointInsert(p) ==
    LET r == req[p] IN
    /\ r.op = "endpoint"
    /\ r.pc = "e_insert"
    /\ InsertRow(p, r, AddRow(r.user, r.amount, r.type, r.description),
                 EndpointAtomic, "e_save")
    /\ UNCHANGED <<credits, started>>
    /\ UNCHANGED rbacVars

\* user.credits += payload.amount; user.save(update_fields=['credits'])
\* The UPDATE writes the value computed from the instance loaded by the
\* lookup; a negative value violates the column's CHECK (IntegrityError).
EndpointSave(p) ==
    LET r == req[p]
        new == EndpointNewCredits(r.inst, r.amount)
    IN
    /\ r.op = "endpoint"
    /\ r.pc = "e_save"
    /\ ~LockedByOther(p, r.user)
    /\ IF CreditsFieldCheck(new)
       THEN UpdateCredits(p, [r EXCEPT !.inst = new], new, EndpointAtomic, "commit")
       ELSE /\ req' = [req EXCEPT ![p] =
                         Finish([r EXCEPT !.dbOps = @ + 1, !.inst = new], "IntegrityError")]
            /\ credits' = credits
    /\ UNCHANGED <<ledger, started>>
    /\ UNCHANGED rbacVars

\* return CreditTransactionResponse.model_validate(credit_transaction)
EndpointRespond(p) ==
    LET r == req[p] IN
    /\ r.pc = "respond"
    /\ req' = [req EXCEPT ![p] =
                 Finish(r, "ok")]
    /\ UNCHANGED <<credits, ledger, started>>
    /\ UNCHANGED rbacVars

\* Workers serving the two admin paths that adjust credits.
NextAdmin ==
    \E p \in Procs :
        \/ \E f \in Forms : ToolsView(p, f)
        \/ \E uid \in {"u1", NoUser}, payload \in Payloads :
              CreateCreditTransaction(p, uid, payload)
        \/ EndpointInsert(p)
        \/ EndpointSave(p)
        \/ EndpointRespond(p)
        \/ Step(p)

SpecAdmin == Init /\ [][NextAdmin]_vars

\* Workers serving POST /{user_id}/credits only.
NextEndpoint ==
    \E p \in Procs :
        \/ \E uid \in {"u1", NoUser}, payload \in Payloads :
              CreateCreditTransaction(p, uid, payload)
        \/ EndpointInsert(p)
        \/ EndpointSave(p)
        \/ Commit(p)
        \/ EndpointRespond(p)
        \/ StorageFailure(p)
        \/ Return(p)

SpecEndpoint == Init /\ [][NextEndpoint]_vars

\* ---- two spend_credits calls racing on one balance

\* Balances and amounts of the race: the balance was bought with one purchase,
\* and both workers have called spend_credits on the same user instance state.
RaceBalances == {100, 140, 60}
RaceAmounts == {70, 30}

InitRace ==
    \E b \in RaceBalances :
        /\ credits = [u \in Users |-> IF u = "u1" THEN b ELSE DefaultCredits]
        /\ ledger = <<AddRow("u1", b, "purchase", "")>>
        /\ started = 1 + Cardinality(Procs)
        /\ req \in [Procs -> {[Idle EXCEPT !.op = "spend", !.user = "u1", !.amount = a,
                                            !.type = "spend", !.inst = b, !.pc = "update"]
                                 : a \in RaceAmounts}]
        /\ RbacIdle

NextRace ==
    \E p \in Procs :
        \/ SpendUpdate(p)
        \/ SpendInsert(p)
        \/ Commit(p)
        \/ Refresh(p)

SpecRace == InitRace /\ [][NextRace]_vars

\* ---- the token endpoints (routers/auth.py)

\* access = CustomAccessToken.for_user(user), in login
LoginAccess(d, u) == ForUser(d, u)

\* Faulty variant: the access token is taken from refresh.access_token, which
\* copies the claims of the refresh token (sub and email) and assembles none.
RefreshAccessFromRefreshToken(d, u) ==
    {[sub |-> u, email |-> UserRow(d, u).email, global_permissions |-> <<>>,
      global_roles |-> <<>>, services |-> <<>>]}

\* access = CustomAccessToken.for_user(user), in refresh_token
RefreshAccess(d, u) == ForUser(d, u)

\* POST /login: authenticate() finds the user by email and checks the
\* password, 400 without a match; 403 unless the user is ACTIVE and the email
\* confirmed; then the response carries a refresh token and the access token.
Login(email, password_ok) ==
    /\ Len(tokens) < MaxTokens
    /\ password_ok
    /\ \E user \in Range(db.User) :
          /\ user.email = email
          /\ user.status = "ACTIVE"
          /\ user.email_confirmed
          /\ \E access \in LoginAccess(db, user.id) : tokens' = Append(tokens, access)
    /\ UNCHANGED <<db, api, mail, ledgerVars>>

\* POST /refresh with a refresh token a login handed out: 401 when the user
\* of its sub claim is gone, 403 unless the user is ACTIVE; then a new access
\* token is made for the user.
RefreshToken(sub) ==
    /\ Len(tokens) < MaxTokens
    /\ \E i \in DOMAIN tokens : tokens[i].sub = sub
    /\ \E user \in Range(db.User) :
          /\ user.id = sub
          /\ user.status = "ACTIVE"
          /\ \E access \in RefreshAccess(db, user.id) : tokens' = Append(tokens, access)
    /\ UNCHANGED <<db, api, mail, ledgerVars>>

\* ---- claims assembly over the assignment states the constraints allow

\* Permissions and roles of the catalogue: three global permissions, the
\* permissions of the two services; two global roles of one name (their
\* service is NULL), a third global role, and the roles of the services.
PermissionRows ==
    <<[id |-> "pa", type |-> "GLOBAL", service |-> Null, code |-> "a"],
      [id |-> "pb", type |-> "GLOBAL", service |-> Null, code |-> "b"],
      [id |-> "pc", type |-> "GLOBAL", service |-> Null, code |-> "c"],
      [id |-> "p1r", type |-> "SERVICE", service |-> 1, code |-> "read"],
      [id |-> "p1w", type |-> "SERVICE", service |-> 1, code |-> "write"],
      [id |-> "p2r", type |-> "SERVICE", service |-> 2, code |-> "read"],
      [id |-> "p2x", type |-> "SERVICE", service |-> 2, code |-> "export"]>>

RoleRows ==
    <<[id |-> "g1", service |-> Null, name |-> "super_admin"],
      [id |-> "g2", service |-> Null, name |-> "auditor"],
      [id |-> "g3", service |-> Null, name |-> "super_admin"],
      [id |-> "e1", service |-> 1, name |-> "editor"],
      [id |-> "v1", service |-> 1, name |-> "viewer"],
      [id |-> "e2", service |-> 2, name |-> "editor"]>>

RolePermissionRows ==
    <<[role |-> "g1", permission |-> "pa"], [role |-> "g1", permission |-> "pb"],
      [role |-> "g2", permission |-> "pb"], [role |-> "g3", permission |-> "pc"],
      [role |-> "e1", permission |-> "p1r"], [role |-> "e1", permission |-> "p1w"],
      [role |-> "v1", permission |-> "p1r"],
      [role |-> "e2", permission |-> "p2x"]>>

Catalogue ==
    [FreshDb EXCEPT !.Permission = PermissionRows, !.Role = RoleRows,
                    !.RolePermission = RolePermissionRows]

\* The rows of u1 in each assignment table, as sequences of the keys in the
\* order the rows were created.
GlobalPermissionChoices == {<<>>, <<"pc">>, <<"pa", "pc">>}
GlobalRoleChoices ==
    {<<>>, <<"g1">>, <<"g2">>, <<"g1", "g2">>, <<"g2", "g1">>, <<"g1", "g3">>}
AssignmentChoices == {<<>>, <<1>>, <<2>>, <<1, 2>>}
ServicePermissionChoices ==
    {<<>>, <<<<1, "p1w">>>>, <<<<2, "p2r">>>>, <<<<1, "p1w">>, <<2, "p2r">>>>}
ServiceRoleChoices ==
    {<<>>, <<<<1, "e1">>>>, <<<<1, "v1">>>>, <<<<1, "e1">>, <<1, "v1">>>>,
     <<<<1, "v1">>, <<1, "e1">>>>, <<<<2, "e2">>>>, <<<<1, "v1">>, <<2, "e2">>>>,
     <<<<2, "e2">>, <<1, "e1">>, <<1, "v1">>>>}

\* The database holds the catalogue, the rows of u2 (created first) and some
\* rows of u1: any state of the assignments the admin site and the admin API
\* can bring about, within the choices above.
InitClaims ==
    /\ credits = [u \in Users |-> DefaultCredits]
    /\ ledger = <<>>
    /\ req = [p \in Procs |-> Idle]
    /\ started = 0
    /\ tokens = <<>>
    /\ mail = <<>>
    /\ api = [p \in Procs |-> ApiIdle]
    /\ \E gp \in GlobalPermissionChoices, gr \in GlobalRoleChoices,
          sa \in AssignmentChoices, sp \in ServicePermissionChoices,
          sr \in ServiceRoleChoices :
          db = [Catalogue EXCEPT
                  !.UserGlobalPermission =
                      <<[user |-> "u2", permission |-> "pb"]>>
                          \o [i \in DOMAIN gp |-> [user |-> "u1", permission |-> gp[i]]],
                  !.UserGlobalRole =
                      <<[user |-> "u2", role |-> "g2"]>>
                          \o [i \in DOMAIN gr |-> [user |-> "u1", role |-> gr[i]]],
                  !.UserServiceAssignment =
                      <<[user |-> "u2", service |-> 2]>>
                          \o [i \in DOMAIN sa |-> [user |-> "u1", service |-> sa[i]]],
                  !.UserServicePermission =
                      <<[user |-> "u2", service |-> 2, permission |-> "p2x"]>>
                          \o [i \in DOMAIN sp |->
                                [user |-> "u1", service |-> sp[i][1],
                                 permission |-> sp[i][2]]],
                  !.UserServiceRole =
                      <<[user |-> "u2", service |-> 2, role |-> "e2"]>>
                          \o [i \in DOMAIN sr |->
                                [user |-> "u1", service |-> sr[i][1], role |-> sr[i][2]]]]
    /\ Constraints(db)

Emails == {"u1@example.com", "u2@example.com", "nobody@example.com"}

\* Clients logging in and refreshing while the assignments stay as they are.
NextClaims ==
    \/ \E email \in Emails, password_ok \in BOOLEAN : Login(email, password_ok)
    \/ \E sub \in Users : RefreshToken(sub)

SpecClaims == InitClaims /\ [][NextClaims]_vars

\* ---- the admin API of users, roles and permissions (routers/users.py,
\* ---- routers/roles_permissions.py), statement by statement

\* The request ends with its response: "ok", "404", or the unhandled
\* IntegrityError (500). Statements run in autocommit, so what the request
\* has written stays written.
ApiFinish(r, outcome) ==
    [ApiIdle EXCEPT !.op = r.op, !.user = r.user, !.service = r.service,
                    !.pc = "done", !.outcome = outcome]

\* INSERT of a row: the database refuses it (IntegrityError) when the table
\* would break one of its constraints.
CanInsert(d, table, row) == Constraints([d EXCEPT ![table] = Append(@, row)])
InsertInto(d, table, row) == [d EXCEPT ![table] = Append(@, row)]

\* filter(user=user, service=service).delete() on an assignment table
DeleteFrom(d, table, u, s) ==
    [d EXCEPT ![table] = SelectSeq(@, LAMBDA x : ~(x.user = u /\ x.service = s))]

\* Faulty variant: the role is looked up by its name alone.
RolesByNameAnyService(d, s, name) == {x \in Range(d.Role) : x.name = name}

\* Role.objects.get(service=service, name=role_name) and
\* Permission.objects.get(service=service, code=perm_code): the matching rows
RolesByName(d, s, name) == {x \in Range(d.Role) : x.service = s /\ x.name = name}
PermissionsByCode(d, s, code) ==
    {x \in Range(d.Permission) : x.service = s /\ x.code = code}

\* uuid.uuid4 for a new Role or Permission row: an id no row of the table has.
FreshIds == <<"n1", "n2", "n3", "n4", "n5", "n6", "n7", "n8", "n9", "n10", "n11", "n12">>
NextId(rows) == FreshIds[Len(rows) + 1]

\* The id of the User row that get_or_create makes for a new email.
NewUserId(email) == IF email = "u3@example.com" THEN "u3" ELSE "u4"

\* The request of worker p starts.
ApiStart(p, r) ==
    /\ api[p].pc = "idle"
    /\ started < MaxRequests
    /\ started' = started + 1
    /\ api' = [api EXCEPT ![p] = r]

\* -- POST /{service_id}/users (create_service_user)

\* User.objects.get_or_create(email=payload.email, ...), then
\* Service.objects.get(id=service_id): 404 when there is none.
CreateServiceUser(p, service_id, payload) ==
    LET found == {x \in Range(db.User) : x.email = payload.email}
        id == IF found = {} THEN NewUserId(payload.email)
              ELSE (CHOOSE x \in found : TRUE).id
        r == [ApiIdle EXCEPT !.op = "create_service_user", !.user = id,
                             !.service = service_id, !.roles = payload.roles,
                             !.permissions = payload.permissions]
    IN
    /\ ApiStart(p, IF service_id \in Services THEN [r EXCEPT !.pc = "c_assignment"]
                   ELSE ApiFinish(r, "404"))
    /\ db' = IF found = {}
             THEN InsertInto(db, "User",
                             [id |-> id, email |-> payload.email, status |-> "ACTIVE",
                              email_confirmed |-> FALSE, password |-> "!"])
             ELSE db
    /\ UNCHANGED <<tokens, mail, credits, ledger, req>>

\* The pc after the assignment, or after a role, is settled.
AfterCreateRoles(r) == IF r.permissions = <<>> THEN "respond" ELSE "c_permission"
AfterCreateAssignment(r) == IF r.roles = <<>> THEN AfterCreateRoles(r) ELSE "c_role"

\* UserServiceAssignment.objects.get_or_create(user=user, service=service):
\* the lookup.
CreateAssignmentGet(p) ==
    LET r == api[p] IN
    /\ r.pc = "c_assignment"
    /\ api' = [api EXCEPT ![p].pc =
                 IF \E x \in Range(db.UserServiceAssignment) :
                        x.user = r.user /\ x.service = r.service
                 THEN AfterCreateAssignment(r)
                 ELSE "c_assignment_create"]
    /\ UNCHANGED <<db, tokens, mail, ledgerVars>>

\* get_or_create after a lookup that found nothing: the INSERT; on
\* IntegrityError (another request has inserted the row meanwhile)
\* get_or_create fetches that row instead.
CreateAssignmentInsert(p) ==
    LET r == api[p]
        row == [user |-> r.user, service |-> r.service]
    IN
    /\ r.pc = "c_assignment_create"
    /\ db' = IF CanInsert(db, "UserServiceAssignment", row)
             THEN InsertInto(db, "UserServiceAssignment", row)
             ELSE db
    /\ api' = [api EXCEPT ![p].pc = AfterCreateAssignment(r)]
    /\ UNCHANGED <<tokens, mail, ledgerVars>>

\* for role_name in payload.roles: Role.objects.get(service=service,
\* name=role_name), skipped on DoesNotExist; then the lookup of
\* UserServiceRole.objects.get_or_create(user=user, service=service, role=role)
CreateRoleGet(p) ==
    LET r == api[p]
        roles == RolesByName(db, r.service, Head(r.roles))
        rest == [r EXCEPT !.roles = Tail(@)]
    IN
    /\ r.pc = "c_role"
    /\ api' = [api EXCEPT ![p] =
                 IF \/ roles = {}
                    \/ \E x \in Range(db.UserServiceRole), role \in roles :
                          x.user = r.user /\ x.service = r.service /\ x.role = role.id
                 THEN [rest EXCEPT !.pc = AfterCreateAssignment(rest)]
                 ELSE [r EXCEPT !.pc = "c_role_create"]]
    /\ UNCHANGED <<db, tokens, mail, ledgerVars>>

\* the INSERT of that get_or_create
CreateRoleInsert(p) ==
    LET r == api[p]
        rest == [r EXCEPT !.roles = Tail(@)]
    IN
    /\ r.pc = "c_role_create"
    /\ \E role \in RolesByName(db, r.service, Head(r.roles)) :
          LET row == [user |-> r.user, service |-> r.service, role |-> role.id] IN
          db' = IF CanInsert(db, "UserServiceRole", row)
                THEN InsertInto(db, "UserServiceRole", row)
                ELSE db
    /\ api' = [api EXCEPT ![p] = [rest EXCEPT !.pc = AfterCreateAssignment(rest)]]
    /\ UNCHANGED <<tokens, mail, ledgerVars>>

\* for perm_code in payload.permissions: Permission.objects.get(
\* service=service, code=perm_code), skipped on DoesNotExist; then the lookup
\* of UserServicePermission.objects.get_or_create(...)
CreatePermissionGet(p) ==
    LET r == api[p]
        perms == PermissionsByCode(db, r.service, Head(r.permissions))
        rest == [r EXCEPT !.permissions = Tail(@)]
    IN
    /\ r.pc = "c_permission"
    /\ api' = [api EXCEPT ![p] =
                 IF \/ perms = {}
                    \/ \E x \in Range(db.UserServicePermission), perm \in perms :
                          x.user = r.user /\ x.service = r.service /\ x.permission = perm.id
                 THEN [rest EXCEPT !.pc = AfterCreateRoles(rest)]
                 ELSE [r EXCEPT !.pc = "c_permission_create"]]
    /\ UNCHANGED <<db, tokens, mail, ledgerVars>>

\* the INSERT of that get_or_create
CreatePermissionInsert(p) ==
    LET r == api[p]
        rest == [r EXCEPT !.permissions = Tail(@)]
    IN
    /\ r.pc = "c_permission_create"
    /\ \E perm \in PermissionsByCode(db, r.service, Head(r.permissions)) :
          LET row == [user |-> r.user, service |-> r.service, permission |-> perm.id] IN
          db' = IF CanInsert(db, "UserServicePermission", row)
                THEN InsertInto(db, "UserServicePermission", row)
                ELSE db
    /\ api' = [api EXCEPT ![p] = [rest EXCEPT !.pc = AfterCreateRoles(rest)]]
    /\ UNCHANGED <<tokens, mail, ledgerVars>>

\* -- PATCH /{user_id}/services/{service_id} (update_user_service_assignment)

\* User.objects.get(id=user_id), Service.objects.get(id=service_id): 404 when
\* either is missing.
UpdateUserServiceAssignment(p, user_id, service_id, payload) ==
    LET r == [ApiIdle EXCEPT !.op = "update_user_service_assignment",
                             !.user = user_id, !.service = service_id,
                             !.roles = payload.roles,
                             !.permissions = payload.permissions]
    IN
    /\ ApiStart(p, IF /\ \E x \in Range(db.User) : x.id = user_id
                      /\ service_id \in Services
                   THEN [r EXCEPT !.pc = "u_clear_roles"]
                   ELSE ApiFinish(r, "404"))
    /\ UNCHANGED <<db, tokens, mail, credits, ledger, req>>

\* UserServiceRole.objects.filter(user=user, service=service).delete()
UpdateClearRoles(p) ==
    LET r == api[p] IN
    /\ r.pc = "u_clear_roles"
    /\ db' = DeleteFrom(db, "UserServiceRole", r.user, r.service)
    /\ api' = [api EXCEPT ![p].pc = IF r.roles = <<>> THEN "u_clear_permissions"
                                    ELSE "u_role"]
    /\ UNCHANGED <<tokens, mail, ledgerVars>>

\* for role_name in payload.roles: Role.objects.get(...), skipped on
\* DoesNotExist; UserServiceRole.objects.create(user=user, service=service,
\* role=role), whose IntegrityError nothing catches.
UpdateAssignRole(p) ==
    LET r == api[p]
        roles == RolesByName(db, r.service, Head(r.roles))
        rest == [r EXCEPT !.roles = Tail(@)]
        next == [rest EXCEPT !.pc = IF rest.roles = <<>> THEN "u_clear_permissions"
                                    ELSE "u_role"]
    IN
    /\ r.pc = "u_role"
    /\ IF roles = {}
       THEN db' = db /\ api' = [api EXCEPT ![p] = next]
       ELSE \E role \in roles :
               LET row == [user |-> r.user, service |-> r.service, role |-> role.id] IN
               IF CanInsert(db, "UserServiceRole", row)
               THEN /\ db' = InsertInto(db, "UserServiceRole", row)
                    /\ api' = [api EXCEPT ![p] = next]
               ELSE /\ db' = db
                    /\ api' = [api EXCEPT ![p] = ApiFinish(r, "IntegrityError")]
    /\ UNCHANGED <<tokens, mail, ledgerVars>>

\* UserServicePermission.objects.filter(user=user, service=service).delete()
UpdateClearPermissions(p) ==
    LET r == api[p] IN
    /\ r.pc = "u_clear_permissions"
    /\ db' = DeleteFrom(db, "UserServicePermission", r.user, r.service)
    /\ api' = [api EXCEPT ![p].pc = IF r.permissions = <<>> THEN "respond"
                                    ELSE "u_permission"]
    /\ UNCHANGED <<tokens, mail, ledgerVars>>

\* for perm_code in payload.permissions: Permission.objects.get(...), skipped
\* on DoesNotExist; UserServicePermission.objects.create(...)
UpdateAssignPermission(p) ==
    LET r == api[p]
        perms == PermissionsByCode(db, r.service, Head(r.permissions))
        rest == [r EXCEPT !.permissions = Tail(@)]
        next == [rest EXCEPT !.pc = IF rest.permissions = <<>> THEN "respond"
                                    ELSE "u_permission"]
    IN
    /\ r.pc = "u_permission"
    /\ IF perms = {}
       THEN db' = db /\ api' = [api EXCEPT ![p] = next]
       ELSE \E perm \in perms :
               LET row == [user |-> r.user, service |-> r.service,
                           permission |-> perm.id] IN
               IF CanInsert(db, "UserServicePermission", row)
               THEN /\ db' = InsertInto(db, "UserServicePermission", row)
                    /\ api' = [api EXCEPT ![p] = next]
               ELSE /\ db' = db
                    /\ api' = [api EXCEPT ![p] = ApiFinish(r, "IntegrityError")]
    /\ UNCHANGED <<tokens, mail, ledgerVars>>

\* -- DELETE /{user_id}/services/{service_id} (delete_user_service_assignment)

DeleteUserServiceAssignment(p, user_id, service_id) ==
    LET r == [ApiIdle EXCEPT !.op = "delete_user_service_assignment",
                             !.user = user_id, !.service = service_id]
    IN
    /\ ApiStart(p, IF /\ \E x \in Range(db.User) : x.id = user_id
                      /\ service_id \in Services
                   THEN [r EXCEPT !.pc = "d_assignment"]
                   ELSE ApiFinish(r, "404"))
    /\ UNCHANGED <<db, tokens, mail, credits, ledger, req>>

\* The three delete() statements, one after the other.
DeleteStatement(p) ==
    LET r == api[p] IN
    /\ r.pc \in {"d_assignment", "d_roles", "d_permissions"}
    /\ db' = DeleteFrom(db,
                        CASE r.pc = "d_assignment" -> "UserServiceAssignment"
                          [] r.pc = "d_roles" -> "UserServiceRole"
                          [] OTHER -> "UserServicePermission",
                        r.user, r.service)
    /\ api' = [api EXCEPT ![p].pc = CASE r.pc = "d_assignment" -> "d_roles"
                                      [] r.pc = "d_roles" -> "d_permissions"
                                      [] OTHER -> "respond"]
    /\ UNCHANGED <<tokens, mail, ledgerVars>>

\* -- POST /{service_id}/roles (create_service_role)

CreateServiceRole(p, service_id, payload) ==
    LET r == [ApiIdle EXCEPT !.op = "create_service_role", !.service = service_id,
                             !.roles = <<payload.name>>,
                             !.permissions = payload.permissions]
    IN
    /\ ApiStart(p, IF service_id \in Services THEN [r EXCEPT !.pc = "r_create"]
                   ELSE ApiFinish(r, "404"))
    /\ UNCHANGED <<db, tokens, mail, credits, ledger, req>>

\* Role.objects.create(service=service, name=payload.name, ...); then, if
\* payload.permissions, the queryset Permission.objects.filter(service=service,
\* code__in=payload.permissions), whose rows the loop will link to the role.
RoleInsert(p) ==
    LET r == api[p]
        row == [id |-> NextId(db.Role), service |-> r.service, name |-> Head(r.roles)]
        linked == SelectSeq(db.Permission,
                            LAMBDA x : x.service = r.service /\ x.code \in Range(r.permissions))
        ids == [i \in DOMAIN linked |-> linked[i].id]
    IN
    /\ r.pc = "r_create"
    /\ IF CanInsert(db, "Role", row)
       THEN /\ db' = InsertInto(db, "Role", row)
            /\ api' = [api EXCEPT ![p] =
                         [r EXCEPT !.roles = <<row.id>>, !.permissions = ids,
                                   !.pc = IF ids = <<>> THEN "respond" ELSE "r_permission"]]
       ELSE /\ db' = db
            /\ api' = [api EXCEPT ![p] = ApiFinish(r, "IntegrityError")]
    /\ UNCHANGED <<tokens, mail, ledgerVars>>

\* for permission in permissions: RolePermission.objects.create(role=role,
\* permission=permission)
RolePermissionInsert(p) ==
    LET r == api[p]
        row == [role |-> Head(r.roles), permission |-> Head(r.permissions)]
        rest == [r EXCEPT !.permissions = Tail(@)]
    IN
    /\ r.pc = "r_permission"
    /\ IF CanInsert(db, "RolePermission", row)
       THEN /\ db' = InsertInto(db, "RolePermission", row)
            /\ api' = [api EXCEPT ![p] =
                         [rest EXCEPT !.pc = IF rest.permissions = <<>> THEN "respond"
                                             ELSE "r_permission"]]
       ELSE /\ db' = db
            /\ api' = [api EXCEPT ![p] = ApiFinish(r, "IntegrityError")]
    /\ UNCHANGED <<tokens, mail, ledgerVars>>

\* -- POST /{service_id}/permissions (create_service_permission)

CreateServicePermission(p, service_id, payload) ==
    LET r == [ApiIdle EXCEPT !.op = "create_service_permission",
                             !.service = service_id,
                             !.permissions = <<payload.code>>]
    IN
    /\ ApiStart(p, IF service_id \in Services THEN [r EXCEPT !.pc = "p_create"]
                   ELSE ApiFinish(r, "404"))
    /\ UNCHANGED <<db, tokens, mail, credits, ledger, req>>

\* Permission.objects.create(service=service, type=Permission.TYPE_SERVICE,
\* code=payload.code, ...)
PermissionInsert(p) ==
    LET r == api[p]
        row == [id |-> NextId(db.Permission), type |-> "SERVICE",
                service |-> r.service, code |-> Head(r.permissions)]
    IN
    /\ r.pc = "p_create"
    /\ IF CanInsert(db, "Permission", row)
       THEN /\ db' = InsertInto(db, "Permission", row)
            /\ api' = [api EXCEPT ![p].pc = "respond"]
       ELSE /\ db' = db
            /\ api' = [api EXCEPT ![p] = ApiFinish(r, "IntegrityError")]
    /\ UNCHANGED <<tokens, mail, ledgerVars>>

\* -- the end of every request

\* return ... of the handler
ApiRespond(p) ==
    /\ api[p].pc = "respond"
    /\ api' = [api EXCEPT ![p] = ApiFinish(api[p], "ok")]
    /\ UNCHANGED <<db, tokens, mail, ledgerVars>>

\* The worker has answered and is free for the next request.
ApiReturn(p) ==
    /\ api[p].pc = "done"
    /\ api' = [api EXCEPT ![p] = ApiIdle]
    /\ UNCHANGED <<db, tokens, mail, ledgerVars>>

\* The steps of a PATCH after its start.
UpdateStep(p) ==
    \/ UpdateClearRoles(p)
    \/ UpdateAssignRole(p)
    \/ UpdateClearPermissions(p)
    \/ UpdateAssignPermission(p)

\* The steps of a request of the admin API after its start.
ApiStep(p) ==
    \/ CreateAssignmentGet(p)
    \/ CreateAssignmentInsert(p)
    \/ CreateRoleGet(p)
    \/ CreateRoleInsert(p)
    \/ CreatePermissionGet(p)
    \/ CreatePermissionInsert(p)
    \/ UpdateStep(p)
    \/ DeleteStatement(p)
    \/ RoleInsert(p)
    \/ RolePermissionInsert(p)
    \/ PermissionInsert(p)
    \/ ApiRespond(p)
    \/ ApiReturn(p)

\* ---- the Django admin site, where global roles are given and taken away

\* The add form of UserGlobalRole: one request, saved in one transaction; the
\* form's validate_unique and the table's unique_together refuse a second row
\* of the same (user, role).
AdminAddUserGlobalRole(u, role) ==
    LET row == [user |-> u, role |-> role] IN
    /\ started < MaxRequests
    /\ started' = started + 1
    /\ db' = IF CanInsert(db, "UserGlobalRole", row)
             THEN InsertInto(db, "UserGlobalRole", row)
             ELSE db
    /\ UNCHANGED <<tokens, mail, api, credits, ledger, req>>

\* The delete view of a UserGlobalRole row.
AdminDeleteUserGlobalRole(u, role) ==
    /\ started < MaxRequests
    /\ \E x \in Range(db.UserGlobalRole) : x.user = u /\ x.role = role
    /\ started' = started + 1
    /\ db' = [db EXCEPT !.UserGlobalRole =
                SelectSeq(@, LAMBDA x : ~(x.user = u /\ x.role = role))]
    /\ UNCHANGED <<tokens, mail, api, credits, ledger, req>>

\* Bodies of the requests: role names and permission codes that exist for the
\* service, that do not, and that occur twice.
AssignPayloads ==
    {[email |-> "u1@example.com", roles |-> <<>>, permissions |-> <<>>],
     [email |-> "u1@example.com", roles |-> <<"editor">>, permissions |-> <<"read">>],
     [email |-> "u1@example.com", roles |-> <<"editor", "editor">>, permissions |-> <<>>],
     [email |-> "u1@example.com", roles |-> <<"ghost">>, permissions |-> <<"write", "write">>]}

\* The body of a request for an email no user has yet.
NewUserPayload ==
    [email |-> "u3@example.com", roles |-> <<"viewer">>, permissions |-> <<>>]

RolePayloads ==
    {[name |-> "editor", permissions |-> <<>>],
     [name |-> "reviewer", permissions |-> <<"read", "write">>]}
PermissionPayloads == {[code |-> "read"], [code |-> "audit"]}

\* Service ids of the paths: a service, and an id no service has.
PathServices == {1, 3}

\* The catalogue exists; no user is assigned anything yet.
InitApi ==
    /\ credits = [u \in Users |-> DefaultCredits]
    /\ ledger = <<>>
    /\ req = [p \in Procs |-> Idle]
    /\ started = 0
    /\ tokens = <<>>
    /\ mail = <<>>
    /\ api = [p \in Procs |-> ApiIdle]
    /\ db = Catalogue

\* Workers serving the admin API, and the admin site giving u1 a global role.
NextApi ==
    \/ \E p \in Procs :
          \/ \E s \in PathServices, payload \in AssignPayloads :
                CreateServiceUser(p, s, payload)
          \/ CreateServiceUser(p, 3, NewUserPayload)
          \/ \E payload \in AssignPayloads :
                UpdateUserServiceAssignment(p, "u1", 1, payload)
          \/ \E u \in {"u1", NoUser} : DeleteUserServiceAssignment(p, u, 1)
          \/ \E payload \in RolePayloads : CreateServiceRole(p, 1, payload)
          \/ \E payload \in PermissionPayloads : CreateServicePermission(p, 1, payload)
          \/ ApiStep(p)
    \/ AdminAddUserGlobalRole("u1", "g1")

SpecApi == InitApi /\ [][NextApi]_vars

\* ---- tokens issued while assignments change

\* u1 is assigned to service 1 and is an editor there.
InitIssue ==
    /\ credits = [u \in Users |-> DefaultCredits]
    /\ ledger = <<>>
    /\ req = [p \in Procs |-> Idle]
    /\ started = 0
    /\ tokens = <<>>
    /\ mail = <<>>
    /\ api = [p \in Procs |-> ApiIdle]
    /\ db = [Catalogue EXCEPT
               !.UserServiceAssignment = <<[user |-> "u1", service |-> 1]>>,
               !.UserServiceRole = <<[user |-> "u1", service |-> 1, role |-> "e1"]>>]

\* Bodies of the PATCH that grants and revokes service roles and permissions.
GrantPayloads ==
    {[roles |-> <<>>, permissions |-> <<>>],
     [roles |-> <<"editor">>, permissions |-> <<>>],
     [roles |-> <<"viewer">>, permissions |-> <<"write">>]}

\* Logins and refreshes interleaved with the admin site and with one worker
\* of the admin API changing what u1 holds.
NextIssue ==
    \/ \E email \in Emails, password_ok \in BOOLEAN : Login(email, password_ok)
    \/ \E sub \in Users : RefreshToken(sub)
    \/ \E role \in {"g1", "g2"} : AdminAddUserGlobalRole("u1", role)
    \/ \E role \in {"g1", "g2"} : AdminDeleteUserGlobalRole("u1", role)
    \/ \E payload \in GrantPayloads : UpdateUserServiceAssignment("p1", "u1", 1, payload)
    \/ UpdateStep("p1")
    \/ ApiRespond("p1")
    \/ ApiReturn("p1")

SpecIssue == InitIssue /\ [][NextIssue]_vars

\* ---- user status, and what a token is worth while the user is not ACTIVE

\* super().authenticate(request, token) of ninja_jwt: the token is valid and
\* the user of its sub claim exists; None otherwise.
AuthenticatedBase(d, t) ==
    IF \E x \in Range(d.User) : x.id = t.sub THEN t.sub ELSE NoUser

\* Faulty variant: the status of the user is not looked at.
AuthenticateAnyStatus(d, t) == AuthenticatedBase(d, t)

\* JWTAuth.authenticate: None unless the user is ACTIVE.
Authenticate(d, t) ==
    LET user == AuthenticatedBase(d, t) IN
    IF user = NoUser THEN NoUser
    ELSE IF UserRow(d, user).status # "ACTIVE" THEN NoUser
    ELSE user

\* save(update_fields=['status', ...]) of the user row
SaveStatus(d, u, status) ==
    [d EXCEPT !.User = [i \in DOMAIN @ |->
                           IF @[i].id = u THEN [@[i] EXCEPT !.status = status] ELSE @[i]]]

\* User.mark_deleted, User.deactivate, User.reactivate: the status each sets
mark_deleted == "DELETED"
deactivate == "INACTIVE"
reactivate == "ACTIVE"

\* DELETE /{user_id}, POST /{user_id}/deactivate, POST /{user_id}/reactivate:
\* 404 without the user, else the method of the user is called.
StatusRequest(p, op, user_id, status) ==
    LET r == [ApiIdle EXCEPT !.op = op, !.user = user_id]
        found == \E x \in Range(db.User) : x.id = user_id
    IN
    /\ ApiStart(p, ApiFinish(r, IF found THEN "ok" ELSE "404"))
    /\ db' = IF found THEN SaveStatus(db, user_id, status) ELSE db
    /\ UNCHANGED <<tokens, mail, credits, ledger, req>>

DeleteUser(p, user_id) == StatusRequest(p, "delete_user", user_id, mark_deleted)
DeactivateUser(p, user_id) == StatusRequest(p, "deactivate_user", user_id, deactivate)
ReactivateUser(p, user_id) == StatusRequest(p, "reactivate_user", user_id, reactivate)

\* PUT /account with the access token tokens[i] as bearer: 401 when
\* JWTAuth.authenticate returns None, else the handler runs for request.auth.
UpdateAccount(p, i) ==
    LET user == Authenticate(db, tokens[i])
        r == [ApiIdle EXCEPT !.op = "update_account", !.user = tokens[i].sub]
    IN
    /\ ApiStart(p, ApiFinish(r, IF user = NoUser THEN "401" ELSE "ok"))
    /\ UNCHANGED <<db, tokens, mail, credits, ledger, req>>

\* The user authenticate() returns for the credentials, if any.
Credentials(d, email, password_ok) ==
    {x \in Range(d.User) : x.email = email /\ password_ok}

\* POST /login that ends in an error: 400 when authenticate() returns None,
\* 403 when the user is not ACTIVE or the email is not confirmed.
LoginRefused(p, email, password_ok) ==
    LET users == Credentials(db, email, password_ok)
        r == [ApiIdle EXCEPT !.op = "login"]
    IN
    /\ \A x \in users : x.status # "ACTIVE" \/ ~ x.email_confirmed
    /\ ApiStart(p, IF users = {} THEN ApiFinish(r, "400")
                   ELSE ApiFinish([r EXCEPT !.user = (CHOOSE x \in users : TRUE).id],
                                  "403"))
    /\ UNCHANGED <<db, tokens, mail, credits, ledger, req>>

\* POST /refresh that ends in an error: 401 when the refresh token is not one
\* a login handed out or its user is gone, 403 when the user is not ACTIVE.
RefreshRefused(p, sub) ==
    LET r == [ApiIdle EXCEPT !.op = "refresh_token", !.user = sub]
        valid == /\ \E i \in DOMAIN tokens : tokens[i].sub = sub
                 /\ \E x \in Range(db.User) : x.id = sub
    IN
    /\ valid => UserRow(db, sub).status # "ACTIVE"
    /\ ApiStart(p, ApiFinish(r, IF valid THEN "403" ELSE "401"))
    /\ UNCHANGED <<db, tokens, mail, credits, ledger, req>>

\* Both users are ACTIVE and confirmed; nothing is assigned.
InitStatus ==
    /\ credits = [u \in Users |-> DefaultCredits]
    /\ ledger = <<>>
    /\ req = [p \in Procs |-> Idle]
    /\ started = 0
    /\ RbacIdle

\* Path parameters: the users, and an id no user has.
PathUsers == Users \cup {NoUser}

\* Logins, refreshes and authenticated requests while admins change the
\* status of users.
NextStatus ==
    \/ \E email \in Emails, password_ok \in BOOLEAN : Login(email, password_ok)
    \/ \E sub \in Users : RefreshToken(sub)
    \/ \E p \in Procs :
          \/ \E email \in Emails, password_ok \in BOOLEAN :
                LoginRefused(p, email, password_ok)
          \/ \E sub \in PathUsers : RefreshRefused(p, sub)
          \/ \E i \in DOMAIN tokens : UpdateAccount(p, i)
          \/ \E u \in PathUsers : DeleteUser(p, u)
          \/ \E u \in PathUsers : DeactivateUser(p, u)
          \/ \E u \in PathUsers : ReactivateUser(p, u)
          \/ ApiReturn(p)

SpecStatus == InitStatus /\ [][NextStatus]_vars

\* ---- forgotten passwords and unconfirmed emails (routers/auth.py)

\* send_email: every backend is tried and an exception of a backend is logged
\* and counted, never raised; the email arrives or it does not.
SendEmail(box, email, delivered) == IF delivered THEN Append(box, email) ELSE box

\* PasswordResetToken.for_user(user), EmailConfirmationToken.for_user(user):
\* a signed token of its type with the id of the user and a jti of its own.
TokenForUser(box, type, u) == [token_type |-> type, sub |-> u, jti |-> Len(box) + 1]

\* Faulty variant: an email nobody registered is answered with 404.
ForgotPasswordResponseRevealing(found) ==
    IF found THEN [status |-> "200",
                   body |-> "If the account exists, an email will be sent with a password reset link."]
    ELSE [status |-> "404", body |-> "User not found."]

\* return 200, {'message': ...} of forgot_password
ForgotPasswordResponse(found) ==
    [status |-> "200",
     body |-> "If the account exists, an email will be sent with a password reset link."]

\* return 200, {'message': ...} of resend_confirmation
ResendConfirmationResponse(found) ==
    [status |-> "200",
     body |-> "If the account exists and is not yet confirmed, a confirmation email will be sent."]

\* The response is what the request leaves behind.
ApiAnswer(r, response) == [ApiFinish(r, response.status) EXCEPT !.body = response.body]

\* POST /forgot-password: request_reset looks the user up by email, returns
\* without one, else makes a reset token and sends it; then the response.
ForgotPassword(p, email, delivered) ==
    LET found == {x \in Range(db.User) : x.email = email}
        r == [ApiIdle EXCEPT !.op = "forgot_password",
                             !.user = IF found = {} THEN NoUser
                                      ELSE (CHOOSE x \in found : TRUE).id]
    IN
    /\ ApiStart(p, ApiAnswer(r, ForgotPasswordResponse(found # {})))
    /\ mail' = IF found = {} THEN mail
               ELSE SendEmail(mail,
                              [to |-> email,
                               token |-> TokenForUser(mail, "password_reset", r.user)],
                              delivered)
    /\ UNCHANGED <<db, tokens, credits, ledger, req>>

\* POST /resend-confirmation: a user of that email whose email is not
\* confirmed is sent a confirmation email; then the response.
ResendConfirmation(p, email, delivered) ==
    LET found == {x \in Range(db.User) : x.email = email}
        r == [ApiIdle EXCEPT !.op = "resend_confirmation",
                             !.user = IF found = {} THEN NoUser
                                      ELSE (CHOOSE x \in found : TRUE).id]
    IN
    /\ ApiStart(p, ApiAnswer(r, ResendConfirmationResponse(found # {})))
    /\ mail' = IF \E x \in found : ~ x.email_confirmed
               THEN SendEmail(mail,
                              [to |-> email,
                               token |-> TokenForUser(mail, "email_confirmation", r.user)],
                              delivered)
               ELSE mail
    /\ UNCHANGED <<db, tokens, credits, ledger, req>>

\* PasswordResetService.validate_token: the token is a PasswordResetToken the
\* service has signed (TokenError otherwise) and its user exists; None
\* otherwise.
ValidateToken(d, token) ==
    IF /\ token.token_type = "password_reset"
       /\ token.sub # NoUser
       /\ \E x \in Range(d.User) : x.id = token.sub
    THEN token.sub
    ELSE NoUser

\* user.set_password(payload.password); user.save(update_fields=['password'])
SavePassword(d, u, password) ==
    [d EXCEPT !.User = [i \in DOMAIN @ |->
                           IF @[i].id = u THEN [@[i] EXCEPT !.password = password]
                           ELSE @[i]]]

\* POST /reset-password: 400 when the two passwords differ or the token is
\* not valid, else the password of the token's user is set.
ResetPassword(p, token, password, password_confirm) ==
    LET user == ValidateToken(db, token)
        r == [ApiIdle EXCEPT !.op = "reset_password", !.user = token.sub,
                             !.inst = token.jti]
        ok == password = password_confirm /\ user # NoUser
    IN
    /\ ApiStart(p, ApiFinish(r, IF ok THEN "200" ELSE "400"))
    /\ db' = IF ok THEN SavePassword(db, user, password) ELSE db
    /\ UNCHANGED <<tokens, mail, credits, ledger, req>>

\* A string that is no token the service has signed.
InvalidToken == [token_type |-> "none", sub |-> NoUser, jti |-> 0]

\* New passwords of the requests.
Passwords == {"newpass123", "otherpass123"}

\* u1 has confirmed the email, u2 has signed up and not confirmed yet.
InitReset ==
    /\ credits = [u \in Users |-> DefaultCredits]
    /\ ledger = <<>>
    /\ req = [p \in Procs |-> Idle]
    /\ started = 0
    /\ tokens = <<>>
    /\ mail = <<>>
    /\ api = [p \in Procs |-> ApiIdle]
    /\ db = [FreshDb EXCEPT !.User[2].email_confirmed = FALSE]

\* Anybody asks for reset links and confirmation emails and presents the
\* tokens the emails carried.
NextReset ==
    \E p \in Procs :
        \/ \E email \in Emails, delivered \in BOOLEAN : ForgotPassword(p, email, delivered)
        \/ \E email \in Emails, delivered \in BOOLEAN :
              ResendConfirmation(p, email, delivered)
        \/ \E token \in {mail[i].token : i \in DOMAIN mail} \cup {InvalidToken},
              password \in Passwords, password_confirm \in Passwords :
              ResetPassword(p, token, password, password_confirm)
        \/ ApiReturn(p)

SpecReset == InitReset /\ [][NextReset]_vars

\* ---- the short URLs of QR codes (qr_code: api/redirect.py, models/qrcode.py)

\* The QRCode rows: one in use, one soft-deleted, one without original_url.
QRCodeRows ==
    <<[short_code |-> "live", scan_count |-> 0, deleted_at |-> FALSE, original_url |-> TRUE],
      [short_code |-> "gone", scan_count |-> 0, deleted_at |-> TRUE, original_url |-> TRUE],
      [short_code |-> "bare", scan_count |-> 0, deleted_at |-> FALSE, original_url |-> FALSE]>>

\* QRCode.objects.get(short_code=short_code): the matching rows
QRCodesByShortCode(d, short_code) ==
    {x \in Range(d.QRCode) : x.short_code = short_code}

\* GET /{short_code}: 404 without the code, a redirect to the dashboard for
\* a soft-deleted one; else the instance is loaded for the increment.
RedirectShortUrl(p, short_code) ==
    LET found == QRCodesByShortCode(db, short_code)
        r == [ApiIdle EXCEPT !.op = "redirect_short_url", !.code = short_code]
    IN
    /\ ApiStart(p, IF found = {} THEN ApiFinish(r, "404")
                   ELSE LET qrcode == CHOOSE x \in found : TRUE IN
                        IF qrcode.deleted_at
                        THEN [ApiFinish(r, "dashboard") EXCEPT !.code = short_code]
                        ELSE [r EXCEPT !.pc = "q_increment",
                                       !.inst = qrcode.scan_count])
    /\ UNCHANGED <<db, tokens, mail, credits, ledger, req>>

\* QRCode.increment_scan_count: self.scan_count += 1 on the loaded instance;
\* save(update_fields=['scan_count', 'last_scanned_at']) writes that value.
IncrementScanCount(loaded) == loaded + 1

\* The increment is saved; then the redirect to original_url, or 400 when
\* the code has none.
RedirectIncrement(p) ==
    LET r == api[p] IN
    /\ r.pc = "q_increment"
    /\ db' = [db EXCEPT !.QRCode =
                [i \in DOMAIN @ |->
                    IF @[i].short_code = r.code
                    THEN [@[i] EXCEPT !.scan_count = IncrementScanCount(r.inst)]
                    ELSE @[i]]]
    /\ api' = [api EXCEPT ![p] =
                 [ApiFinish(r, IF \E x \in QRCodesByShortCode(db, r.code) : x.original_url
                               THEN "302" ELSE "400")
                    EXCEPT !.code = r.code]]
    /\ UNCHANGED <<tokens, mail, ledgerVars>>

\* Short codes of the requests: the three codes, and one no QR code has.
ShortCodes == {"live", "gone", "bare", "none"}

InitQr ==
    /\ credits = [u \in Users |-> DefaultCredits]
    /\ ledger = <<>>
    /\ req = [p \in Procs |-> Idle]
    /\ started = 0
    /\ tokens = <<>>
    /\ mail = <<>>
    /\ api = [p \in Procs |-> ApiIdle]
    /\ db = [FreshDb EXCEPT !.QRCode = QRCodeRows]

\* Workers serving scans of the short URLs.
NextQr ==
    \E p \in Procs :
        \/ \E short_code \in ShortCodes : RedirectShortUrl(p, short_code)
        \/ RedirectIncrement(p)
        \/ ApiReturn(p)

SpecQr == InitQr /\ [][NextQr]_vars

\* ---------------------------------------------------------------- claims

IsLedgerCall(r) == r.op \in {"add", "spend"}

\* C1: after every add_credits / spend_credits call, successful or failing,
\* each user's stored balance equals the sum of the amounts of that user's
\* CreditTransaction rows.
C1_BalanceEqualsLedgerSum ==
    (\E p \in Procs : IsLedgerCall(req[p]) /\ req[p].pc = "done")
        => \A u \in Users : credits[u] = LedgerSum(u)

C1_Witness ==
    \E p, q \in Procs :
        /\ req[p].op = "spend" /\ req[p].pc = "done" /\ req[p].outcome = "ok"
        /\ req[q].op = "spend" /\ req[q].pc = "done"
        /\ req[q].outcome = "InsufficientCredits"
        /\ Len(ledger) = 2

\* C2: in every reachable state, under every interleaving of the credit
\* operations, every user's balance is at least zero.
C2_BalanceNeverNegative == \A u \in Users : credits[u] >= 0

C2_Witness ==
    \E p, q \in Procs :
        /\ p # q
        /\ req[p].op = "spend" /\ req[p].user = "u1" /\ req[p].amount = 2
        /\ req[p].pc = "refresh"
        /\ req[q].op = "spend" /\ req[q].user = "u1" /\ req[q].amount = 2
        /\ req[q].pc = "update"
        /\ credits["u1"] = 0

\* The calls of the race that returned, and the amounts the calls asked for.
RaceOk == {p \in Procs : req[p].pc = "done" /\ req[p].outcome = "ok"}

RECURSIVE SumOver(_, _)
SumOver(f, S) ==
    IF S = {} THEN 0
    ELSE LET x == CHOOSE y \in S : TRUE IN f[x] + SumOver(f, S \ {x})

RaceAmountOf == [p \in Procs |-> req[p].amount]

\* C3: concurrent spends on one user serialize around the conditional update:
\* at most one of them holds an approved, uncommitted decrement, each approved
\* decrement fits the committed balance it was approved against, and once both
\* calls have returned the balance is the start balance minus the amounts of
\* the successful ones, with one negative ledger row each; two spends that each
\* fit the balance but not together (100 and 70, 70) end with exactly one
\* success and one InsufficientCredits.
C3_ConcurrentSpendsSerialize ==
    LET start == ledger[1].amount
        asked == SumOver(RaceAmountOf, Procs)
        spent == SumOver(RaceAmountOf, RaceOk)
    IN
    /\ Cardinality({p \in Procs : req[p].txBal # <<>>}) <= 1
    /\ \A p \in Procs :
          req[p].txBal # <<>> =>
              /\ req[p].txBal[1] = credits["u1"] - req[p].amount
              /\ req[p].txBal[1] >= 0
    /\ (\A p \in Procs : req[p].pc = "done") =>
          /\ credits["u1"] = start - spent
          /\ credits["u1"] >= 0
          /\ Len(ledger) = 1 + Cardinality(RaceOk)
          /\ \A i \in 2..Len(ledger) :
                \E p \in RaceOk : ledger[i] = SpendRow("u1", req[p].amount, "spend", "")
          /\ \A p \in Procs \ RaceOk : req[p].outcome = "InsufficientCredits"
          /\ ((\A p \in Procs : req[p].amount <= start) /\ asked > start)
                => Cardinality(RaceOk) = Cardinality(Procs) - 1
          /\ asked <= start => RaceOk = Procs

C3_Witness ==
    /\ \A p \in Procs : req[p].pc = "done" /\ req[p].amount = 70
    /\ ledger = <<AddRow("u1", 100, "purchase", ""), SpendRow("u1", 70, "spend", "")>>
    /\ credits["u1"] = 30
    /\ \E p, q \in Procs :
          req[p].outcome = "ok" /\ req[q].outcome = "InsufficientCredits"

\* C4: when the conditional UPDATE of a spend_credits call with amount > 0 runs
\* against a balance below the amount, the call ends with
\* InsufficientCredits (not ValueError, not a storage error), no ledger row is
\* created and the balance stays as it was.
C4_InsufficientSpendRejected ==
    [][\A p \in Procs :
          (/\ req[p].op = "spend"
           /\ req[p].pc = "update"
           /\ req[p].amount > 0
           /\ credits[req[p].user] < req[p].amount
           /\ req'[p].dbOps = req[p].dbOps + 1)
          => (/\ req'[p].pc = "done"
              /\ req'[p].outcome = "InsufficientCredits"
              /\ req'[p].wrote = {}
              /\ credits' = credits
              /\ ledger' = ledger)]_vars

C4_Witness ==
    \E p \in Procs :
        /\ req[p].op = "spend" /\ req[p].pc = "done"
        /\ req[p].outcome = "InsufficientCredits"
        /\ req[p].amount = 2
        /\ credits[req[p].user] = 1
        /\ Len(ledger) = 1

C7_NonPositiveAmountRejected ==
    \A p \in Procs :
        (IsLedgerCall(req[p]) /\ req[p].amount <= 0) =>
            /\ req[p].pc = "done"
            /\ req[p].outcome = "ValueError"
            /\ req[p].dbOps = 0
            /\ req[p].wrote = {}

C7_Witness ==
    \E p, q \in Procs :
        /\ req[p].op = "add" /\ req[p].amount = 0 /\ req[p].outcome = "ValueError"
        /\ req[q].op = "spend" /\ req[q].amount = -1 /\ req[q].outcome = "ValueError"
        /\ ledger = <<>>

\* The step that commits a call, and the signed amount the call stands for.
Committing(p) ==
    IsLedgerCall(req[p]) /\ req[p].pc = "commit" /\ req'[p].pc = "refresh"

SignedAmount(r) == IF r.op = "add" THEN r.amount ELSE 0 - r.amount

\* C8: the balance and the ledger change only when a call commits, and then
\* by exactly one row: add_credits(amount) raises the balance by amount and
\* appends a row of +amount, spend_credits(amount) lowers it by amount and
\* appends a row of -amount, and the row carries the caller's type and
\* description.
C8_ExactSignedEffect ==
    [][/\ \A p \in Procs :
            Committing(p) =>
                /\ ledger' = Append(ledger,
                                    [user |-> req[p].user,
                                     amount |-> SignedAmount(req[p]),
                                     type |-> req[p].type,
                                     description |-> req[p].description])
                /\ credits' = [credits EXCEPT ![req[p].user] =
                                                @ + SignedAmount(req[p])]
       /\ (credits' # credits \/ ledger' # ledger) => \E p \in Procs : Committing(p)
      ]_vars

C8_Witness ==
    \E p \in Procs :
        /\ req[p].op = "spend" /\ req[p].pc = "refresh" /\ req[p].amount = 1
        /\ req[p].description = "note"
        /\ Len(ledger) = 2
        /\ ledger[2] = [user |-> "u1", amount |-> -1, type |-> "adjustment",
                         description |-> "note"]
        /\ credits["u1"] = 1

\* The amount a request takes off the balance: a negative endpoint amount, or
\* the amount of a spend.
AdminDebit(r) ==
    IF r.op = "endpoint" THEN 0 - r.amount
    ELSE IF r.op = "spend" THEN r.amount
    ELSE 0

\* C9: every admin credit adjustment (tools view and POST /{user_id}/credits)
\* keeps the conditional-update safety of spends: while a request is an admin
\* debit larger than the user's current balance, no step of it changes the
\* balance or the ledger.
C9_AdminDebitGuarded ==
    [][\A p \in Procs :
          (/\ req[p].pc \notin {"idle", "done"}
           /\ req[p].wrote = {}
           /\ AdminDebit(req[p]) > 0
           /\ AdminDebit(req[p]) > credits[req[p].user]
           /\ req'[p] # req[p])
          => (credits' = credits /\ ledger' = ledger)]_vars

\* C10: once all requests to the credit-transaction endpoint have completed,
\* in any interleaving, the user's balance equals the initial balance plus the
\* sum of the amounts of the recorded ledger rows.
C10_EndpointBalanceMatchesLedger ==
    (\A p \in Procs : req[p].pc \in {"idle", "done"})
        => \A u \in Users : credits[u] = DefaultCredits + LedgerSum(u)

C12_AssemblyDeterministic ==
    \A i, j \in DOMAIN tokens :
        tokens[i].sub = tokens[j].sub =>
            /\ tokens[i].email = tokens[j].email
            /\ tokens[i].global_permissions = tokens[j].global_permissions
            /\ tokens[i].global_roles = tokens[j].global_roles
            /\ tokens[i].services = tokens[j].services

\* A list of codes in strictly ascending order: sorted, and free of duplicates.
StrictlyAscending(list) ==
    \A a, b \in DOMAIN list : a < b => StrLess(list[a], list[b])

\* The codes of the user's direct global permissions, and the codes of the
\* permissions attached to the roles the user holds globally, read off the rows.
DirectGlobalPermissionCodes(u) ==
    {p.code : p \in {x \in Range(db.Permission) :
                        \E ugp \in Range(db.UserGlobalPermission) :
                            ugp.user = u /\ ugp.permission = x.id}}

GlobalRolePermissionCodes(u) ==
    {p.code : p \in {x \in Range(db.Permission) :
                        \E ugr \in Range(db.UserGlobalRole), rp \in Range(db.RolePermission) :
                            ugr.user = u /\ rp.role = ugr.role /\ rp.permission = x.id}}

\* C13: the global_permissions claim of every token is the sorted,
\* duplicate-free list of exactly the codes of the user's direct global
\* permissions and of the permissions of the user's global roles; a role with
\* {a, b} plus the direct permission c gives <<"a", "b", "c">>.
C13_GlobalPermissionsSortedUnion ==
    \A i \in DOMAIN tokens :
        LET u == tokens[i].sub
            list == tokens[i].global_permissions
        IN
        /\ Range(list) = DirectGlobalPermissionCodes(u) \cup GlobalRolePermissionCodes(u)
        /\ StrictlyAscending(list)
        /\ (DirectGlobalPermissionCodes(u) = {"c"} /\ GlobalRolePermissionCodes(u) = {"a", "b"})
              => list = <<"a", "b", "c">>

C13_Witness ==
    \E i \in DOMAIN tokens :
        /\ tokens[i].sub = "u1"
        /\ tokens[i].global_roles = <<"super_admin">>
        /\ DirectGlobalPermissionCodes("u1") = {"c"}
        /\ tokens[i].global_permissions = <<"a", "b", "c">>

\* The codes of the user's direct permissions for service s, and the codes of
\* the permissions of the roles the user holds for s, read off the rows.
DirectServicePermissionCodes(u, s) ==
    {p.code : p \in {x \in Range(db.Permission) :
                        \E usp \in Range(db.UserServicePermission) :
                            usp.user = u /\ usp.service = s /\ usp.permission = x.id}}

ServiceRolePermissionCodes(u, s) ==
    {p.code : p \in {x \in Range(db.Permission) :
                        \E usr \in Range(db.UserServiceRole), rp \in Range(db.RolePermission) :
                            /\ usr.user = u /\ usr.service = s
                            /\ rp.role = usr.role /\ rp.permission = x.id}}

Assigned(u, s) ==
    \E a \in Range(db.UserServiceAssignment) : a.user = u /\ a.service = s

\* C14: for every service S the user is assigned to, services[S].permissions
\* of every token is the sorted, duplicate-free list of exactly the codes of
\* the user's UserServicePermission rows for S and of the permissions of the
\* roles the user holds for S through UserServiceRole.
C14_ServicePermissionsSortedUnion ==
    \A i \in DOMAIN tokens : \A s \in Services :
        LET u == tokens[i].sub IN
        Assigned(u, s) =>
            /\ ToString(s) \in DOMAIN tokens[i].services
            /\ LET list == tokens[i].services[ToString(s)].permissions IN
               /\ Range(list) = DirectServicePermissionCodes(u, s)
                                    \cup ServiceRolePermissionCodes(u, s)
               /\ StrictlyAscending(list)

C14_Witness ==
    \E i \in DOMAIN tokens :
        /\ tokens[i].sub = "u1"
        /\ DirectServicePermissionCodes("u1", 1) = {"write"}
        /\ ServiceRolePermissionCodes("u1", 1) = {"read"}
        /\ "1" \in DOMAIN tokens[i].services
        /\ tokens[i].services["1"].permissions = <<"read", "write">>

\* The database without the rows that assign anything to user u for service s.
WithoutService(d, u, s) ==
    [d EXCEPT
       !.UserServiceAssignment = SelectSeq(@, LAMBDA x : ~(x.user = u /\ x.service = s)),
       !.UserServicePermission = SelectSeq(@, LAMBDA x : ~(x.user = u /\ x.service = s)),
       !.UserServiceRole = SelectSeq(@, LAMBDA x : ~(x.user = u /\ x.service = s))]

\* C15: the entry of service S2 in a token does not depend on what the user
\* is assigned for another service S1: the entry is one the assembler builds
\* when all rows of the user for S1 are taken away, each of its role names is
\* the name of a role the user holds for S2 and each of its codes comes from a
\* permission or role assigned for S2.
C15_ServiceIsolation ==
    \A i \in DOMAIN tokens : \A k \in DOMAIN tokens[i].services :
        LET u == tokens[i].sub
            s2 == KeyService(k)
            entry == tokens[i].services[k]
        IN
        /\ \A s1 \in Services \ {s2} :
              entry \in ServiceEntries(WithoutService(db, u, s1), u, s2)
        /\ \A n \in Range(entry.roles) :
              \E usr \in Range(db.UserServiceRole), r \in Range(db.Role) :
                  usr.user = u /\ usr.service = s2 /\ r.id = usr.role /\ r.name = n
        /\ Range(entry.permissions) \subseteq
              DirectServicePermissionCodes(u, s2) \cup ServiceRolePermissionCodes(u, s2)

C15_Witness ==
    \E i \in DOMAIN tokens :
        /\ tokens[i].sub = "u1"
        /\ DOMAIN tokens[i].services = {"1", "2"}
        /\ tokens[i].services["1"] =
              [permissions |-> <<"read", "write">>, roles |-> <<"viewer">>]
        /\ tokens[i].services["2"] =
              [permissions |-> <<"export", "read">>, roles |-> <<"editor">>]

\* The user has no row in any of the five assignment tables.
NoAssignments(u) ==
    /\ \A x \in Range(db.UserGlobalPermission) : x.user # u
    /\ \A x \in Range(db.UserGlobalRole) : x.user # u
    /\ \A x \in Range(db.UserServiceAssignment) : x.user # u
    /\ \A x \in Range(db.UserServicePermission) : x.user # u
    /\ \A x \in Range(db.UserServiceRole) : x.user # u

\* C16: the keys of the services claim of every token are exactly the ids (as
\* strings) of the services the user has a UserServiceAssignment row for; a
\* user without any assignment gets empty global_permissions, global_roles and
\* services; and for every user the assembly has a result.
C16_ServiceKeysAreAssignments ==
    /\ \A i \in DOMAIN tokens :
          LET u == tokens[i].sub IN
          /\ DOMAIN tokens[i].services = {ToString(s) : s \in {x \in Services : Assigned(u, x)}}
          /\ NoAssignments(u) =>
                /\ tokens[i].global_permissions = <<>>
                /\ tokens[i].global_roles = <<>>
                /\ DOMAIN tokens[i].services = {}
    /\ \A user \in Range(db.User) : ForUser(db, user.id) # {}

C16_Witness ==
    \E i, j \in DOMAIN tokens :
        /\ tokens[i].sub = "u1" /\ NoAssignments("u1")
        /\ tokens[i].global_permissions = <<>> /\ tokens[i].global_roles = <<>>
        /\ DOMAIN tokens[i].services = {}
        /\ tokens[j].sub = "u2" /\ DOMAIN tokens[j].services = {"2"}

\* The names of the roles of the user's rows in a role assignment table, in
\* the order in which the rows were created.
NamesInCreationOrder(rows) ==
    [i \in DOMAIN rows |-> (CHOOSE r \in Range(db.Role) : r.id = rows[i].role).name]

\* C17: global_roles and every services[S].roles of a token list the names of
\* the user's assigned roles in the order in which the UserGlobalRole /
\* UserServiceRole rows were created, neither sorted nor deduplicated.
C17_RolesInAssignmentOrder ==
    \A i \in DOMAIN tokens :
        LET u == tokens[i].sub IN
        /\ tokens[i].global_roles =
              NamesInCreationOrder(SelectSeq(db.UserGlobalRole, LAMBDA x : x.user = u))
        /\ \A k \in DOMAIN tokens[i].services :
              tokens[i].services[k].roles =
                  NamesInCreationOrder(
                      SelectSeq(db.UserServiceRole,
                                LAMBDA x : x.user = u /\ ToString(x.service) = k))

\* C18: in every state of roles and assignments the uniqueness constraints
\* allow, no token's global_roles claim contains the same role name twice.
C18_GlobalRolesDistinct ==
    Constraints(db) =>
        \A i \in DOMAIN tokens :
            \A a, b \in DOMAIN tokens[i].global_roles :
                a # b => tokens[i].global_roles[a] # tokens[i].global_roles[b]

\* How often the name occurs in the list.
Occurrences(names, n) == Cardinality({i \in DOMAIN names : names[i] = n})

\* How many of the role rows are of a role of that name.
RowsOfRoleNamed(rows, n) ==
    Cardinality({i \in DOMAIN rows :
                    \E role \in Range(db.Role) : role.id = rows[i].role /\ role.name = n})

RoleNamesOfDb == {role.name : role \in Range(db.Role)}

\* The token says what its user holds in the database of this state: the
\* global roles and permissions, the services assigned, and the roles and
\* permissions held for each.
SnapshotOfDb(t) ==
    LET u == t.sub
        held == SelectSeq(db.UserGlobalRole, LAMBDA x : x.user = u)
    IN
    /\ Range(t.global_permissions)
          = DirectGlobalPermissionCodes(u) \cup GlobalRolePermissionCodes(u)
    /\ \A n \in RoleNamesOfDb \cup Range(t.global_roles) :
          Occurrences(t.global_roles, n) = RowsOfRoleNamed(held, n)
    /\ DOMAIN t.services = {ToString(s) : s \in {x \in Services : Assigned(u, x)}}
    /\ \A s \in {x \in Services : Assigned(u, x)} :
          LET entry == t.services[ToString(s)]
              heldFor == SelectSeq(db.UserServiceRole,
                                   LAMBDA x : x.user = u /\ x.service = s)
          IN
          /\ Range(entry.permissions)
                = DirectServicePermissionCodes(u, s) \cup ServiceRolePermissionCodes(u, s)
          /\ \A n \in RoleNamesOfDb \cup Range(entry.roles) :
                Occurrences(entry.roles, n) = RowsOfRoleNamed(heldFor, n)

NoTwoRows(rows, fields) ==
    \A i, j \in DOMAIN rows :
        (\A f \in fields : rows[i][f] = rows[j][f]) => i = j

\* C20: in every state the admin API reaches, no two UserServiceAssignment
\* rows share (user, service), no two UserServiceRole rows share (user,
\* service, role), no two UserServicePermission rows share (user, service,
\* permission), no two UserGlobalRole rows share (user, role), no two
\* UserGlobalPermission rows share (user, permission) and no two
\* RolePermission rows share (role, permission): an attempt to create a
\* duplicate leaves the table as it was.
C20_AssignmentsUnique ==
    /\ NoTwoRows(db.UserServiceAssignment, {"user", "service"})
    /\ NoTwoRows(db.UserServiceRole, {"user", "service", "role"})
    /\ NoTwoRows(db.UserServicePermission, {"user", "service", "permission"})
    /\ NoTwoRows(db.UserGlobalRole, {"user", "role"})
    /\ NoTwoRows(db.UserGlobalPermission, {"user", "permission"})
    /\ NoTwoRows(db.RolePermission, {"role", "permission"})

\* A PATCH naming the role "editor" twice has been rejected with the
\* IntegrityError of its second create, and the user holds the role once.
C20_Witness ==
    \E p \in Procs :
        /\ api[p].op = "update_user_service_assignment"
        /\ api[p].outcome = "IntegrityError"
        /\ Len(SelectSeq(db.UserServiceRole,
                         LAMBDA x : x.user = api[p].user /\ x.service = api[p].service)) = 1

\* The status of the user, "none" without a user of that id.
StatusOf(d, u) ==
    IF \E x \in Range(d.User) : x.id = u THEN UserRow(d, u).status ELSE "none"

\* C21: while the status of a user is not ACTIVE, a request bearing a token
\* of that user is not authenticated (whenever the token was issued), no
\* step issues a token for that user, and a login with the right password
\* and a refresh with a valid refresh token are answered with 403.
C21_InactiveUserLockedOut ==
    [][/\ \A p \in Procs :
             (api'[p] # api[p] /\ api'[p].op = "update_account"
                 /\ StatusOf(db, api'[p].user) # "ACTIVE")
                => api'[p].outcome = "401"
       /\ tokens' # tokens =>
             StatusOf(db, tokens'[Len(tokens')].sub) = "ACTIVE"
       /\ \A p \in Procs, x \in Range(db.User) :
             x.status # "ACTIVE" =>
                /\ LoginRefused(p, x.email, TRUE) => api'[p].outcome = "403"
                /\ ~ Login(x.email, TRUE)
                /\ ((\E i \in DOMAIN tokens : tokens[i].sub = x.id)
                       /\ RefreshRefused(p, x.id)) => api'[p].outcome = "403"
                /\ ~ RefreshToken(x.id)]_vars

\* u1 holds a token from an earlier login and has been deactivated since; a
\* request bearing the token was answered 401 and a login of u1 403.
C21_Witness ==
    /\ \E i \in DOMAIN tokens : tokens[i].sub = "u1"
    /\ StatusOf(db, "u1") = "INACTIVE"
    /\ \E p, q \in Procs :
          /\ api[p].op = "update_account" /\ api[p].user = "u1"
          /\ api[p].outcome = "401"
          /\ api[q].op = "login" /\ api[q].user = "u1" /\ api[q].outcome = "403"

\* C22: once a reset request presenting a token has been answered with 200,
\* a later reset request presenting the same token is answered with 400 and
\* leaves every password as it was.
C22_ResetTokenSingleUse ==
    [][\A p, q \in Procs :
          (/\ p # q
           /\ api[p].op = "reset_password" /\ api[p].outcome = "200"
           /\ api'[q] # api[q]
           /\ api'[q].op = "reset_password"
           /\ api'[q].user = api[p].user /\ api'[q].inst = api[p].inst)
          => api'[q].outcome = "400" /\ db' = db]_vars

\* Requests of the kind that have been answered and not yet forgotten.
Answered(op) == {p \in Procs : api[p].op = op /\ api[p].pc = "done"}

\* C23: any two forgot-password requests, and any two resend-confirmation
\* requests, get the same status and the same body, whether or not the
\* email is registered and whether or not it is confirmed.
C23_ResponsesDoNotReveal ==
    \A op \in {"forgot_password", "resend_confirmation"} :
        \A p, q \in Answered(op) :
            api[p].outcome = api[q].outcome /\ api[p].body = api[q].body

\* Two forgot-password requests have been answered, one for the registered
\* u1, to whom the link has been sent, and one for an email nobody has.
C23_Witness ==
    \E p, q \in Answered("forgot_password") :
        /\ api[p].user = "u1" /\ api[q].user = NoUser
        /\ \E i \in DOMAIN mail : mail[i].to = "u1@example.com"

\* The stored scan_count of the QR code of that short code.
ScanCount(d, short_code) ==
    (CHOOSE x \in Range(d.QRCode) : x.short_code = short_code).scan_count

\* C24: every redirect that is answered with the 302 to original_url raises
\* the stored scan_count of its code by exactly 1, and nothing else changes
\* a scan_count of a code that is redirected; so N successful redirects, in
\* any interleaving, add N.
C24_EachRedirectCountsOnce ==
    [][\A p \in Procs :
          (api'[p] # api[p] /\ api'[p].op = "redirect_short_url"
              /\ api'[p].outcome = "302")
          => ScanCount(db', api'[p].code) = ScanCount(db, api'[p].code) + 1]_vars

\* No request of the admin API is under way.
ApiQuiet == \A p \in Procs : api[p].pc \in {"idle", "done"}

\* C25: once the requests of the admin API have ended, every
\* UserServiceRole row and every UserServicePermission row of a (user,
\* service) pair has a UserServiceAssignment row of the same pair.
C25_GrantsHaveAssignment ==
    ApiQuiet =>
        \A x \in Range(db.UserServiceRole) \cup Range(db.UserServicePermission) :
            Assigned(x.user, x.service)

\* The rows of the user for the service in the two grant tables.
GrantsOf(d, u, s) ==
    <<SelectSeq(d.UserServiceRole, LAMBDA x : x.user = u /\ x.service = s),
      SelectSeq(d.UserServicePermission, LAMBDA x : x.user = u /\ x.service = s)>>

\* C26: a PATCH of a service assignment that fails leaves the roles and
\* permissions of the user for the service as they were before it; stated
\* for the first request of a run, before which they are those of the
\* initial database.
C26_FailedUpdateChangesNothing ==
    \A p \in Procs :
        (/\ started = 1
         /\ api[p].op = "update_user_service_assignment"
         /\ api[p].outcome = "IntegrityError")
        => GrantsOf(db, api[p].user, api[p].service)
              = GrantsOf(Catalogue, api[p].user, api[p].service)

\* C27: once the status of a user is DELETED, no delete, deactivate or
\* reactivate request changes it.
C27_DeletedIsTerminal ==
    [][\A u \in Users :
          StatusOf(db, u) = "DELETED" => StatusOf(db', u) = "DELETED"]_vars

\* C28: no ledger row has the amount 0, every row of type spend has a
\* negative amount, and every row of type purchase or refund a positive one,
\* whichever code path wrote the row.
C28_LedgerSignsMatchTypes ==
    \A i \in DOMAIN ledger :
        /\ ledger[i].amount # 0
        /\ ledger[i].type = "spend" => ledger[i].amount < 0
        /\ ledger[i].type \in {"purchase", "refund"} => ledger[i].amount > 0

\* C29: the step in which a create-service-user request is answered with
\* 404 for a service that does not exist leaves every table as it was.
C29_RejectedCreateChangesNothing ==
    [][\A p \in Procs :
          (api'[p] # api[p] /\ api'[p].op = "create_service_user"
              /\ api'[p].outcome = "404")
          => db' = db]_vars

\* The service of the role, of the permission.
ServiceOfRole(id) == RoleRow(db, id).service
ServiceOfPermission(id) == PermissionRow(db, id).service

\* C30: every UserServiceRole row links a role of the row's service, every
\* UserServicePermission row a permission of the row's service, and every
\* RolePermission row of a service role a permission of the role's service;
\* and the entry of service S in any token names only roles and permission
\* codes defined for S.
C30_GrantsStayInsideTheirService ==
    /\ \A x \in Range(db.UserServiceRole) : ServiceOfRole(x.role) = x.service
    /\ \A x \in Range(db.UserServicePermission) :
          ServiceOfPermission(x.permission) = x.service
    /\ \A x \in Range(db.RolePermission) :
          ServiceOfRole(x.role) # Null =>
             ServiceOfPermission(x.permission) = ServiceOfRole(x.role)
    /\ \A u \in {x.id : x \in Range(db.User)} :
          \A t \in ForUser(db, u) :
             \A k \in DOMAIN t.services :
                /\ \A n \in Range(t.services[k].roles) :
                      \E role \in Range(db.Role) :
                         role.service = KeyService(k) /\ role.name = n
                /\ \A c \in Range(t.services[k].permissions) :
                      \E perm \in Range(db.Permission) :
                         perm.service = KeyService(k) /\ perm.code = c

\* The API has created the role reviewer of service 1 with its two
\* permissions, and u1 holds a role and a permission of service 1.
C30_Witness ==
    /\ \E role \in Range(db.Role) :
          /\ role.service = 1 /\ role.name = "reviewer"
          /\ Cardinality({x \in Range(db.RolePermission) : x.role = role.id}) = 2
    /\ \E x \in Range(db.UserServiceRole) : x.user = "u1" /\ x.service = 1
    /\ \E x \in Range(db.UserServicePermission) : x.user = "u1" /\ x.service = 1

====
